---------------------------- MODULE Spec2Model ----------------------------
(***************************************************************************)
(* Message routing and session correlation of promptty: the session store  *)
(* (db/sessions.ts), the Slack and Teams message handlers with their       *)
(* active-context registries, the executor's process environment, the      *)
(* router's sendUpdate and the periodic session sweep; and the callback    *)
(* server's three endpoints with the router functions behind them; and the *)
(* response filter of config/types.ts.                                     *)
(*                                                                         *)
(* Time is the value of Date.now() in model ticks.  Every await of the     *)
(* handlers is a step boundary; the synchronous code between two awaits is *)
(* one action (the process is single threaded and bun:sqlite calls are     *)
(* synchronous).                                                           *)
(***************************************************************************)
EXTENDS Integers, Sequences, FiniteSets, TLC

\* ---- bounds of the model ----
MaxHandlers == 2        \* message handlers that may be in flight at once
MaxTime == 2            \* last value of the clock
MaxSessions == 2        \* session rows ever created (randomUUID values used)

\* channelConfig.sessionTTL of the two configured channels, in ticks
SlackTTL == 2
TeamsTTL == 1

MaxConfig == 2          \* keys of config.channels
MaxLive == 2            \* channels a conversations.list answer holds
MaxRequests == 1        \* requests the callback server takes in one behaviour
MaxText == 2            \* characters of a message text given to the filter
MaxKeywords == 2        \* entries of filter.keywords
MaxPatterns == 2        \* entries of filter.patterns
MaxCombine == 2         \* entries of filter.combineModes
MaxIdLength == 2        \* characters of a workspace id and of a channel id

Handlers == 1..MaxHandlers
SessionIds == 1..MaxSessions

\* ---- values ----
Null == 0               \* SQL NULL / undefined / '' for ids
Undefined == -1         \* an option that the caller did not pass
EmptyString == 0        \* the '' that `?? ''` produces
NullText == "null"      \* NULL in a TEXT column
Platforms == {"slack", "teams"}
AgentIds == {"a1"}

\* The conversations the bot is configured for: one Slack thread and one
\* Teams conversation (Teams uses conversation.id as channel and thread).
SlackKey == [platform |-> "slack", workspaceId |-> "T1", channelId |-> "C1", threadId |-> "ts1"]
TeamsKey == [platform |-> "teams", workspaceId |-> "tenant1", channelId |-> "conv1", threadId |-> "conv1"]
Keys == {SlackKey, TeamsKey}

\* getChannelConfig(key).sessionTTL
sessionTTL(key) == IF key.platform = "slack" THEN SlackTTL ELSE TeamsTTL

VARIABLES
  now,              \* Date.now()
  sessions,         \* table sessions: a set of rows
  messageLog,       \* table message_log, projected on its session_id column
  nextId,           \* the next value randomUUID() returns
  slackContexts,    \* slack/adapter.ts activeContexts: session id -> context
  teamsContexts,    \* teams/adapter.ts activeContexts: session id -> context
  handlers,         \* one record per in-flight inbound message
  slackApp,         \* slack/adapter.ts app is not null (initSlackApp found credentials)
  teamsAdapter,     \* teams/adapter.ts adapter is not null
  conversationReferences, \* teams/adapter.ts conversationReferences: its keys
  config,           \* loadConfig().channels: its keys, in order
  call,             \* the last request the callback server took
  reply,            \* and what it answered
  decision,         \* a filter, a message context and shouldRespondToMessage's answer
  keyTrip,          \* a channel key, its text and what parseChannelKey made of the text
  resolution        \* a config file, a Slack message and what the handler found for it

\* What startup fixes, and the Teams cache
adapters == <<slackApp, teamsAdapter>>

\* The configuration and the last exchange of the callback server
ingress == <<config, call, reply>>

\* What the functions of config/ were given and what they returned
lookups == <<keyTrip, resolution>>

vars == <<now, sessions, messageLog, nextId, slackContexts, teamsContexts, handlers,
          adapters, conversationReferences, ingress, decision, lookups>>

-----------------------------------------------------------------------------
\* db/sessions.ts

NoRow == [id |-> Null, platform |-> "none", workspace_id |-> "", channel_id |-> "",
          thread_id |-> NullText, claude_session_id |-> NullText,
          last_activity |-> 0, expires_at |-> 0, created_at |-> 0]

\* WHERE platform = ? AND workspace_id = ? AND channel_id = ? AND
\* (thread_id = ? OR (thread_id IS NULL AND ? IS NULL))
HasKey(row, key) ==
  /\ row.platform = key.platform
  /\ row.workspace_id = key.workspaceId
  /\ row.channel_id = key.channelId
  /\ \/ (row.thread_id = key.threadId /\ key.threadId # NullText)
     \/ (row.thread_id = NullText /\ key.threadId = NullText)

\* The thread id bound in the place of the channel id
MatchesKey_WrongBind(row, key, t) ==
  /\ row.platform = key.platform
  /\ row.workspace_id = key.workspaceId
  /\ row.channel_id = key.threadId
  /\ row.thread_id = key.channelId
  /\ row.expires_at > t

\* The lookup without its expiry test
MatchesKey_NoExpiry(row, key, t) == HasKey(row, key)

\* WHERE clause of findSession: the key and AND expires_at > ?
MatchesKey(row, key, t) == HasKey(row, key) /\ row.expires_at > t

\* SELECT ... ORDER BY last_activity DESC LIMIT 1
findSessionRow(db, key, t) ==
  LET live == {r \in db : MatchesKey(r, key, t)}
  IN IF live = {} THEN NoRow
     ELSE CHOOSE r \in live : \A q \in live : q.last_activity <= r.last_activity

\* The lookup without its UPDATE
findSessionDb_NoTouch(db, key, t) == db

\* UPDATE sessions SET last_activity = ? WHERE id = ?
findSessionDb(db, key, t) ==
  LET row == findSessionRow(db, key, t)
  IN IF row = NoRow THEN db
     ELSE {IF r.id = row.id THEN [r EXCEPT !.last_activity = t] ELSE r : r \in db}

createSessionRow(key, ttl, t, id) ==
  [id |-> id, platform |-> key.platform, workspace_id |-> key.workspaceId,
   channel_id |-> key.channelId, thread_id |-> key.threadId,
   claude_session_id |-> NullText,
   last_activity |-> t, expires_at |-> t + ttl, created_at |-> t]

\* createSession without the lookup before it
getOrCreateSession_AlwaysCreates(db, key, ttl, t, id) ==
  [session |-> createSessionRow(key, ttl, t, id), created |-> TRUE,
   db |-> db \cup {createSessionRow(key, ttl, t, id)}]

\* getOrCreateSession: the session returned, whether it was created, and the
\* table afterwards
getOrCreateSession(db, key, ttl, t, id) ==
  LET existing == findSessionRow(db, key, t)
  IN IF existing # NoRow
       THEN [session |-> existing, created |-> FALSE, db |-> findSessionDb(db, key, t)]
       ELSE [session |-> createSessionRow(key, ttl, t, id), created |-> TRUE,
             db |-> db \cup {createSessionRow(key, ttl, t, id)}]

\* An update that also renews the expiry
updateClaudeSessionId_Extends(db, sessionId, claudeSessionId, t) ==
  {IF r.id = sessionId
     THEN [r EXCEPT !.claude_session_id = claudeSessionId, !.last_activity = t,
                    !.expires_at = t + 1]
     ELSE r : r \in db}

\* UPDATE sessions SET claude_session_id = ?, last_activity = ? WHERE id = ?
updateClaudeSessionId(db, sessionId, claudeSessionId, t) ==
  {IF r.id = sessionId
     THEN [r EXCEPT !.claude_session_id = claudeSessionId, !.last_activity = t]
     ELSE r : r \in db}

\* A sweep that goes by the last activity
cleanupExpiredSessions_ByActivity(db, t) == {r \in db : ~(r.last_activity < t)}

\* DELETE FROM sessions WHERE expires_at < ?
cleanupExpiredSessions(db, t) == {r \in db : ~(r.expires_at < t)}

\* result.changes of that DELETE, the return value: the rows the statement
\* matched (rows removed by ON DELETE CASCADE are not counted)
cleanupChanges(db, t) == Cardinality({r \in db : r.expires_at < t})

getSessionById(db, sessionId) ==
  IF \E r \in db : r.id = sessionId
    THEN CHOOSE r \in db : r.id = sessionId
    ELSE NoRow

\* message_log.session_id REFERENCES sessions(id) with foreign_keys = ON:
\* the INSERT of logMessage fails when the session row is gone
logMessageThrows(db, sessionId) == getSessionById(db, sessionId) = NoRow

\* INSERT INTO message_log (session_id, direction, content, ...)
logMessage(log, sessionId) == log \cup {[session_id |-> sessionId]}

\* DELETE FROM sessions WHERE id = ?
deleteSession(db, sessionId) == {r \in db : r.id # sessionId}

\* A message_log table without the ON DELETE CASCADE action
cascade_Keeps(log, db) == log

\* ON DELETE CASCADE
cascade(log, db) == {e \in log : \E r \in db : r.id = e.session_id}


-----------------------------------------------------------------------------
\* Active-context registries (one Map per platform adapter)

NoContext == [channelId |-> "", threadTs |-> "", msg |-> 0]

\* SlackMessageContext / TeamsMessageContext of inbound message m: where to
\* post follow-ups (msg stands for the fields that identify that one inbound
\* message: ackTs on Slack, the activity of the conversationReference on Teams)
ContextOf(key, m) == [channelId |-> key.channelId, threadTs |-> key.threadId, msg |-> m]

EmptyRegistry == [s \in SessionIds |-> NoContext]

\* activeContexts.set(session.id, context)
register(ctxs, sessionId, ctx) == [ctxs EXCEPT ![sessionId] = ctx]

\* A handler that leaves its entry behind
unregister_Keeps(ctxs, sessionId) == ctxs

\* activeContexts.delete(session.id)
unregister(ctxs, sessionId) == [ctxs EXCEPT ![sessionId] = NoContext]

\* activeContexts.get(sessionId)
getActiveContext(ctxs, sessionId) ==
  IF sessionId \in DOMAIN ctxs THEN ctxs[sessionId] ELSE NoContext

-----------------------------------------------------------------------------
\* llm/executor.ts

\* The ExecuteOptions the adapters build: sessionId is the agent's own
\* session id (resume), prompttySessionId is not passed
adapterExecuteOptions(session) ==
  [sessionId |-> session.claude_session_id, prompttySessionId |-> Undefined]

\* env.PROMPTTY_SESSION_ID of the spawned process: options.prompttySessionId ?? ''
spawnEnvSessionId(options) ==
  IF options.prompttySessionId = Undefined THEN EmptyString
  ELSE options.prompttySessionId

\* The MCP server's post_update: SESSION_ID is env.PROMPTTY_SESSION_ID; without
\* it the tool answers with an error and sends nothing, otherwise it posts
\* {session_id: SESSION_ID, message} to /callback
NoRequest == [sent |-> FALSE, session_id |-> EmptyString]
postUpdateRequest(sessionIdEnv) ==
  IF sessionIdEnv = EmptyString THEN NoRequest
  ELSE [sent |-> TRUE, session_id |-> sessionIdEnv]

\* --resume argument of buildArgs
resumeArg(options) == options.sessionId

\* The ways an invocation ends: a success result, a failure result (non-zero
\* exit or is_error), the timeout branch, or an exception out of execute
Outcomes == {"ok", "fail", "timeout", "throw"}

\* result.success
resultSuccess(outcome) == outcome = "ok"

\* A handler that formats every result as a response
responseKind_AlwaysResponse(outcome) == "response"

\* formatResponse when result.success, formatError otherwise
responseKind(outcome) == IF resultSuccess(outcome) THEN "response" ELSE "error"

\* result.claudeSessionId: the session_id of the agent's events when there was
\* one, absent on the timeout branch and in the result of the catch block
ResultAgentIds(outcome) ==
  IF outcome \in {"ok", "fail"} THEN AgentIds \cup {NullText} ELSE {NullText}

-----------------------------------------------------------------------------
\* platforms/router.ts

\* An update posted without looking for the context
sendPlatformUpdate_NoContextCheck(ctxs, sessionId, postOk) ==
  [result |-> postOk, posted |-> getActiveContext(ctxs, sessionId)]

\* sendSlackUpdate / sendTeamsUpdate: false without a context, false when the
\* post throws, true after a post to the context's thread
sendPlatformUpdate(ctxs, sessionId, postOk) ==
  LET context == getActiveContext(ctxs, sessionId)
  IN IF context = NoContext THEN [result |-> FALSE, posted |-> NoContext]
     ELSE IF postOk THEN [result |-> TRUE, posted |-> context]
     ELSE [result |-> FALSE, posted |-> NoContext]

\* A router that asks the registry of the other platform
sendUpdate_OtherPlatform(db, slackCtxs, teamsCtxs, sessionId, postOk) ==
  LET session == getSessionById(db, sessionId)
  IN IF session = NoRow THEN [result |-> FALSE, posted |-> NoContext]
     ELSE IF session.platform = "slack" THEN sendPlatformUpdate(teamsCtxs, sessionId, postOk)
     ELSE IF session.platform = "teams" THEN sendPlatformUpdate(slackCtxs, sessionId, postOk)
     ELSE [result |-> FALSE, posted |-> NoContext]

\* router sendUpdate: getSessionById, then the adapter of session.platform
sendUpdate(db, slackCtxs, teamsCtxs, sessionId, postOk) ==
  LET session == getSessionById(db, sessionId)
  IN IF session = NoRow THEN [result |-> FALSE, posted |-> NoContext]
     ELSE IF session.platform = "slack" THEN sendPlatformUpdate(slackCtxs, sessionId, postOk)
     ELSE IF session.platform = "teams" THEN sendPlatformUpdate(teamsCtxs, sessionId, postOk)
     ELSE [result |-> FALSE, posted |-> NoContext]

\* ---- cross-channel messages ----

\* No channel received anything
Nowhere == [platform |-> "", channelId |-> ""]

\* SendMessageResult: success, error, and the channel the message went to
SendMessageResult(success, error, sent) ==
  [success |-> success, error |-> error, sent |-> sent]

NoResult == SendMessageResult(FALSE, "", Nowhere)

\* sendSlackToChannel: chat.postMessage to target.channelId; its failure is
\* caught and reported with the error's message
sendSlackToChannel(target, app, postOk) ==
  IF ~app THEN SendMessageResult(FALSE, "Slack app not initialized", Nowhere)
  ELSE IF postOk
    THEN SendMessageResult(TRUE, "", [platform |-> "slack", channelId |-> target.channelId])
    ELSE SendMessageResult(FALSE, "error.message", Nowhere)

\* A Teams send that does not look for the conversation reference
sendTeamsToChannel_NoReferenceCheck(target, adapter, refs, postOk) ==
  IF ~adapter THEN SendMessageResult(FALSE, "Teams adapter not initialized", Nowhere)
  ELSE IF postOk
    THEN SendMessageResult(TRUE, "", [platform |-> "teams", channelId |-> target.channelId])
    ELSE SendMessageResult(FALSE, "error.message", Nowhere)

\* sendTeamsToChannel: continueConversation on the stored reference of
\* target.channelId
sendTeamsToChannel(target, adapter, refs, postOk) ==
  IF ~adapter THEN SendMessageResult(FALSE, "Teams adapter not initialized", Nowhere)
  ELSE IF target.channelId \notin refs
    THEN SendMessageResult(FALSE, "No conversation reference for channel", Nowhere)
  ELSE IF postOk
    THEN SendMessageResult(TRUE, "", [platform |-> "teams", channelId |-> target.channelId])
    ELSE SendMessageResult(FALSE, "error.message", Nowhere)

\* router sendToChannel (neither adapter function throws, so its catch block
\* is not reached)
sendToChannel(target, app, adapter, refs, postOk) ==
  IF target.platform = "slack" THEN sendSlackToChannel(target, app, postOk)
  ELSE IF target.platform = "teams" THEN sendTeamsToChannel(target, adapter, refs, postOk)
  ELSE SendMessageResult(FALSE, "Unknown platform", Nowhere)

\* ---- channel listing ----

\* name of a ChannelInfo that has none
NoName == ""

ChannelInfo(platform, workspaceId, channelId, name, configured) ==
  [platform |-> platform, workspaceId |-> workspaceId, channelId |-> channelId,
   name |-> name, configured |-> configured]

\* A key of config.channels, as its text splits at the first ':' and the
\* first '/': "slack:T1/C1" is ConfigKey("slack", "T1", "C1")
ConfigKey(platform, workspaceId, channelId) ==
  [platform |-> platform, workspaceId |-> workspaceId, channelId |-> channelId]

\* The configuration the handlers of this model run under
DeployedConfig ==
  <<ConfigKey(SlackKey.platform, SlackKey.workspaceId, SlackKey.channelId),
    ConfigKey(TeamsKey.platform, TeamsKey.workspaceId, TeamsKey.channelId)>>

\* key.match(/^(slack|teams):([^/]+)\/(.+)$/)
keyMatches(key) ==
  key.platform \in Platforms /\ key.workspaceId # "" /\ key.channelId # ""

\* The loop over Object.keys(config.channels): one entry per matching key
RECURSIVE configuredChannels(_)
configuredChannels(keys) ==
  IF keys = <<>> THEN <<>>
  ELSE LET key == Head(keys)
           rest == configuredChannels(Tail(keys))
       IN IF keyMatches(key)
            THEN <<ChannelInfo(key.platform, key.workspaceId, key.channelId, NoName, TRUE)>> \o rest
            ELSE rest

\* channels.find(c => c.platform === platform && c.channelId === channelId):
\* the index of the first such entry, 0 when there is none
findChannel(channels, platform, channelId) ==
  LET found == {i \in DOMAIN channels :
                  channels[i].platform = platform /\ channels[i].channelId = channelId}
  IN IF found = {} THEN 0 ELSE CHOOSE i \in found : \A j \in found : i <= j

\* The body of the loop over the live channels
addLiveChannel(channels, ch) ==
  LET i == findChannel(channels, ch.platform, ch.channelId)
  IN IF i = 0 THEN Append(channels, [ch EXCEPT !.configured = FALSE])
     ELSE IF ch.name # NoName THEN [channels EXCEPT ![i].name = ch.name]
     ELSE channels

RECURSIVE addLiveChannels(_, _)
addLiveChannels(channels, live) ==
  IF live = <<>> THEN channels
  ELSE addLiveChannels(addLiveChannel(channels, Head(live)), Tail(live))

\* The answer of conversations.list (and auth.test): it failed, or the
\* channels with their id and name
Listing(ok, channels) == [ok |-> ok, channels |-> channels]
NoListing == Listing(TRUE, <<>>)

\* A listing whose failure is answered with a placeholder channel
getSlackChannels_Placeholder(app, listing) ==
  IF ~app THEN <<>>
  ELSE IF ~listing.ok THEN <<ChannelInfo("slack", "unknown", "", "unknown", FALSE)>>
  ELSE [i \in DOMAIN listing.channels |->
          ChannelInfo("slack", SlackKey.workspaceId, listing.channels[i].id,
                      IF listing.channels[i].name = NoName THEN listing.channels[i].id
                      ELSE listing.channels[i].name, FALSE)]

\* getSlackChannels: [] without the app and when the listing throws
getSlackChannels(app, listing) ==
  IF ~app THEN <<>>
  ELSE IF ~listing.ok THEN <<>>
  ELSE [i \in DOMAIN listing.channels |->
          ChannelInfo("slack", SlackKey.workspaceId, listing.channels[i].id,
                      IF listing.channels[i].name = NoName THEN listing.channels[i].id
                      ELSE listing.channels[i].name, FALSE)]

\* The keys of a Map, in some order
RECURSIVE entries(_)
entries(S) ==
  IF S = {} THEN <<>>
  ELSE LET x == CHOOSE x \in S : TRUE IN <<x>> \o entries(S \ {x})

\* getTeamsChannels: the cached conversation references (the references of
\* this model carry no conversation name)
getTeamsChannels(refs) ==
  LET ids == entries(refs)
  IN [i \in DOMAIN ids |-> ChannelInfo("teams", TeamsKey.workspaceId, ids[i], ids[i], FALSE)]

\* router getAvailableChannels
getAvailableChannels(db, sessionId, keys, app, refs, listing) ==
  LET session == getSessionById(db, sessionId)
      channels == configuredChannels(keys)
  IN IF session = NoRow THEN <<>>
     ELSE IF session.platform = "slack"
       THEN addLiveChannels(channels, getSlackChannels(app, listing))
     ELSE IF session.platform = "teams"
       THEN addLiveChannels(channels, getTeamsChannels(refs))
     ELSE channels

-----------------------------------------------------------------------------
\* callbacks/server.ts

\* A non-empty message text
UpdateText == 1

\* An id that no session has
UnknownSessionId == MaxSessions + 1

\* A request body as req.json() delivers it (parsed), or one it throws on.
\* A field that is missing or empty holds EmptyString or "".
Body(parsed, session_id, platform, channel_id, message) ==
  [parsed |-> parsed, session_id |-> session_id, platform |-> platform,
   channel_id |-> channel_id, message |-> message]

UnparseableBody == Body(FALSE, EmptyString, "", "", EmptyString)
EmptyBody == Body(TRUE, EmptyString, "", "", EmptyString)

\* A Response: its status, whether the router was called, and what the router
\* did (the context an update was posted to, the result of sendToChannel, the
\* channel list)
Answer(status, routed, posted, result, channels) ==
  [status |-> status, routed |-> routed, posted |-> posted, result |-> result,
   channels |-> channels]

NoReply == Answer(0, FALSE, NoContext, NoResult, <<>>)

\* POST /callback
callbackResponse(body, db, slackCtxs, teamsCtxs, postOk) ==
  IF ~body.parsed THEN Answer(500, FALSE, NoContext, NoResult, <<>>)
  ELSE IF body.session_id = EmptyString \/ body.message = EmptyString
    THEN Answer(400, FALSE, NoContext, NoResult, <<>>)
  ELSE LET u == sendUpdate(db, slackCtxs, teamsCtxs, body.session_id, postOk)
       IN Answer(IF u.result THEN 200 ELSE 404, TRUE, u.posted, NoResult, <<>>)

\* A /message that answers 404 for a session the store does not have
messageResponse_ChecksSession(body, app, adapter, refs, postOk) ==
  IF ~body.parsed THEN Answer(500, FALSE, NoContext, NoResult, <<>>)
  ELSE IF body.session_id = EmptyString \/ body.platform = "" \/ body.channel_id = ""
          \/ body.message = EmptyString
    THEN Answer(400, FALSE, NoContext, NoResult, <<>>)
  ELSE IF getSessionById(sessions, body.session_id) = NoRow
    THEN Answer(404, FALSE, NoContext, NoResult, <<>>)
  ELSE LET result == sendToChannel([platform |-> body.platform, channelId |-> body.channel_id],
                                   app, adapter, refs, postOk)
       IN Answer(IF result.success THEN 200 ELSE 400, TRUE, NoContext, result, <<>>)

\* POST /message
messageResponse(body, app, adapter, refs, postOk) ==
  IF ~body.parsed THEN Answer(500, FALSE, NoContext, NoResult, <<>>)
  ELSE IF body.session_id = EmptyString \/ body.platform = "" \/ body.channel_id = ""
          \/ body.message = EmptyString
    THEN Answer(400, FALSE, NoContext, NoResult, <<>>)
  ELSE LET result == sendToChannel([platform |-> body.platform, channelId |-> body.channel_id],
                                   app, adapter, refs, postOk)
       IN Answer(IF result.success THEN 200 ELSE 400, TRUE, NoContext, result, <<>>)

\* GET /channels?session_id=...
channelsResponse(query, db, keys, app, refs, listing) ==
  IF query.session_id = EmptyString THEN Answer(400, FALSE, NoContext, NoResult, <<>>)
  ELSE Answer(200, TRUE, NoContext, NoResult,
              getAvailableChannels(db, query.session_id, keys, app, refs, listing))

\* The n-th request and what the platform did for it
Call(n, endpoint, body, postOk, listing) ==
  [n |-> n, endpoint |-> endpoint, body |-> body, postOk |-> postOk, listing |-> listing]

NoCall == Call(0, "none", EmptyBody, TRUE, NoListing)

-----------------------------------------------------------------------------
\* config/types.ts: the response filter

\* An optional array of a ResponseFilter: absent, or its items
Optional(present, items) == [present |-> present, items |-> items]
Absent == Optional(FALSE, <<>>)

\* A ResponseFilter
ResponseFilter(mode, keywords, patterns, allowDMs, combineModes) ==
  [defined |-> TRUE, mode |-> mode, keywords |-> keywords, patterns |-> patterns,
   allowDMs |-> allowDMs, combineModes |-> combineModes]

\* The undefined responseFilter of a channel that configures none
NoFilter ==
  [defined |-> FALSE, mode |-> "mentions", keywords |-> Absent, patterns |-> Absent,
   allowDMs |-> TRUE, combineModes |-> Absent]

\* A text is the sequence of its characters
MessageFilterContext(text, isMention, isDM, isThread) ==
  [text |-> text, isMention |-> isMention, isDM |-> isDM, isThread |-> isThread]

\* String.prototype.toLowerCase, on the alphabet of the model
toLowerCase(text) == [i \in DOMAIN text |-> IF text[i] = "H" THEN "h" ELSE text[i]]

\* A containment test that wants the whole text to be the part
includes_WholeText(text, part) == text = part

\* String.prototype.includes
includes(text, part) ==
  \E i \in 0..(Len(text) - Len(part)) : SubSeq(text, i + 1, i + Len(part)) = part

\* A test in which a pattern that does not compile counts as a match
regexTest_InvalidMatches(pattern, text) ==
  ~pattern.valid \/ includes(toLowerCase(text), toLowerCase(pattern.source))

\* new RegExp(pattern, 'i').test(text) inside its try: false when the
\* pattern does not compile; the patterns that compile are literal texts
regexTest(pattern, text) ==
  pattern.valid /\ includes(toLowerCase(text), toLowerCase(pattern.source))

\* A 'none' that falls through to the default branch
checkSingleMode_NoneIsDefault(mode, filter, context) ==
  CASE mode = "all" -> TRUE
    [] mode = "threads" -> context.isThread
    [] mode = "keywords" ->
         IF ~filter.keywords.present \/ Len(filter.keywords.items) = 0 THEN FALSE
         ELSE \E i \in DOMAIN filter.keywords.items :
                includes(toLowerCase(context.text), toLowerCase(filter.keywords.items[i]))
    [] mode = "regex" ->
         IF ~filter.patterns.present \/ Len(filter.patterns.items) = 0 THEN FALSE
         ELSE \E i \in DOMAIN filter.patterns.items :
                regexTest(filter.patterns.items[i], context.text)
    [] OTHER -> context.isMention

\* A keywords mode in which an empty list matches every text
checkSingleMode_EmptyKeywordsMatch(mode, filter, context) ==
  CASE mode = "all" -> TRUE
    [] mode = "none" -> FALSE
    [] mode = "mentions" -> context.isMention
    [] mode = "threads" -> context.isThread
    [] mode = "keywords" ->
         IF ~filter.keywords.present \/ Len(filter.keywords.items) = 0 THEN TRUE
         ELSE \E i \in DOMAIN filter.keywords.items :
                includes(toLowerCase(context.text), toLowerCase(filter.keywords.items[i]))
    [] mode = "regex" ->
         IF ~filter.patterns.present \/ Len(filter.patterns.items) = 0 THEN FALSE
         ELSE \E i \in DOMAIN filter.patterns.items :
                regexTest(filter.patterns.items[i], context.text)
    [] OTHER -> context.isMention

\* checkSingleMode
checkSingleMode(mode, filter, context) ==
  CASE mode = "all" -> TRUE
    [] mode = "none" -> FALSE
    [] mode = "mentions" -> context.isMention
    [] mode = "threads" -> context.isThread
    [] mode = "keywords" ->
         IF ~filter.keywords.present \/ Len(filter.keywords.items) = 0 THEN FALSE
         ELSE \E i \in DOMAIN filter.keywords.items :
                includes(toLowerCase(context.text), toLowerCase(filter.keywords.items[i]))
    [] mode = "regex" ->
         IF ~filter.patterns.present \/ Len(filter.patterns.items) = 0 THEN FALSE
         ELSE \E i \in DOMAIN filter.patterns.items :
                regexTest(filter.patterns.items[i], context.text)
    [] OTHER -> context.isMention

\* A default that answers mentions only
noFilterAnswer_MentionsOnly(context) == context.isMention

\* The answer without a filter
noFilterAnswer(context) == context.isMention \/ context.isDM

\* A DM rule that does not read allowDMs
dmAllowed_Always(filter, context) == context.isDM

\* A DM rule that mode 'none' switches off
dmAllowed_UnlessNone(filter, context) ==
  context.isDM /\ filter.allowDMs /\ filter.mode # "none"

\* context.isDM && filter.allowDMs
dmAllowed(filter, context) == context.isDM /\ filter.allowDMs

\* Combined modes that must all pass
anyModePasses_Every(modes, filter, context) ==
  \A i \in DOMAIN modes : checkSingleMode(modes[i], filter, context)

\* filter.combineModes.some(mode => checkSingleMode(mode, filter, context))
anyModePasses(modes, filter, context) ==
  \E i \in DOMAIN modes : checkSingleMode(modes[i], filter, context)

\* shouldRespondToMessage
shouldRespondToMessage(filter, context) ==
  IF ~filter.defined THEN noFilterAnswer(context)
  ELSE IF dmAllowed(filter, context) THEN TRUE
  ELSE IF filter.combineModes.present /\ Len(filter.combineModes.items) > 0
    THEN anyModePasses(filter.combineModes.items, filter, context)
  ELSE checkSingleMode(filter.mode, filter, context)

\* A filter and a context, and the answer once shouldRespondToMessage ran
Decision(filter, context, decided, result) ==
  [filter |-> filter, context |-> context, decided |-> decided, result |-> result]

NoDecision == Decision(NoFilter, MessageFilterContext(<<>>, FALSE, FALSE, FALSE), FALSE, FALSE)

\* ---- channel keys (config/types.ts) ----

\* A ChannelKey; workspaceId and channelId are sequences of characters
ChannelKey(platform, workspaceId, channelId) ==
  [platform |-> platform, workspaceId |-> workspaceId, channelId |-> channelId]

\* The characters of a platform's name
PlatformText(platform) ==
  IF platform = "slack" THEN <<"s", "l", "a", "c", "k">> ELSE <<"t", "e", "a", "m", "s">>

\* The line terminator of the alphabet, which '.' does not match
LineTerminator == "\n"

\* A key text with a colon between workspace and channel
makeChannelKey_ColonSeparated(key) ==
  PlatformText(key.platform) \o <<":">> \o key.workspaceId \o <<":">> \o key.channelId

\* `${key.platform}:${key.workspaceId}/${key.channelId}`
makeChannelKey(key) ==
  PlatformText(key.platform) \o <<":">> \o key.workspaceId \o <<"/">> \o key.channelId

\* What parseChannelKey returns: null, or a ChannelKey
Parsed(matched, key) == [matched |-> matched, key |-> key]
NoMatch == Parsed(FALSE, ChannelKey("none", <<>>, <<>>))

\* text starts with the characters of prefix
startsWith(text, prefix) ==
  Len(text) >= Len(prefix) /\ SubSeq(text, 1, Len(prefix)) = prefix

\* The groups ([^/]+)\/(.+)$ of the pattern on what follows the colon: the
\* first group ends before the first slash and has a character, the second
\* runs to the end, has a character and no line terminator
parseRest(platform, rest) ==
  IF \E i \in DOMAIN rest : rest[i] = "/"
    THEN LET slash == CHOOSE i \in DOMAIN rest :
                        rest[i] = "/" /\ \A j \in 1..(i - 1) : rest[j] # "/"
             workspaceId == SubSeq(rest, 1, slash - 1)
             channelId == SubSeq(rest, slash + 1, Len(rest))
         IN IF /\ Len(workspaceId) > 0
               /\ Len(channelId) > 0
               /\ \A j \in DOMAIN channelId : channelId[j] # LineTerminator
              THEN Parsed(TRUE, ChannelKey(platform, workspaceId, channelId))
              ELSE NoMatch
    ELSE NoMatch

\* key.match(/^(slack|teams):([^/]+)\/(.+)$/)
parseChannelKey(text) ==
  IF \E p \in {"slack", "teams"} : startsWith(text, PlatformText(p) \o <<":">>)
    THEN LET platform == CHOOSE p \in {"slack", "teams"} :
                           startsWith(text, PlatformText(p) \o <<":">>)
         IN parseRest(platform, SubSeq(text, Len(PlatformText(platform)) + 2, Len(text)))
    ELSE NoMatch

\* A key, the text makeChannelKey gave and, once parsed, parseChannelKey's result
KeyTrip(key, text, parsed, result) ==
  [key |-> key, text |-> text, parsed |-> parsed, result |-> result]

NoTrip == KeyTrip(ChannelKey("none", <<>>, <<>>), <<>>, FALSE, NoMatch)

\* ---- the configuration file and getChannelConfig (config/index.ts) ----

\* A field of a JSON object: written with a value, or left out
Setting(written, value) == [written |-> written, value |-> value]
NoText == Setting(FALSE, "")
NoNumber == Setting(FALSE, 0)
NoFilterSetting == Setting(FALSE, NoFilter)

\* A channel entry or the defaults object, with the fields of channelConfigSchema
ChannelConfig(workingDirectory, command, sessionTTLSetting, systemPrompt, responseFilter) ==
  [workingDirectory |-> workingDirectory, command |-> command,
   sessionTTL |-> sessionTTLSetting, systemPrompt |-> systemPrompt,
   responseFilter |-> responseFilter]

\* An object that is not there: no defaults, no entry, null from getChannelConfig
Missing == [present |-> FALSE,
            value |-> ChannelConfig(NoText, NoText, NoNumber, NoText, NoFilterSetting)]
Present(channelConfig) == [present |-> TRUE, value |-> channelConfig]

\* z.string().default('claude') and z.number().default(14400000)
SchemaCommand == "claude"
SchemaSessionTTL == 14400000

\* A field with .default(value) after parsing
withDefault(setting, value) == IF setting.written THEN setting ELSE Setting(TRUE, value)

\* channelConfigSchema on a channel entry: command and sessionTTL get their
\* schema defaults, the optional fields stay as written
parseChannel(entry) ==
  [entry EXCEPT !.command = withDefault(@, SchemaCommand),
                !.sessionTTL = withDefault(@, SchemaSessionTTL)]

\* The file: defaults (optional) and channels, here the entries by key text
ConfigFile(defaults, channels) == [defaults |-> defaults, channels |-> channels]

\* configSchema.safeParse(parsed).data: channelConfigSchema on every entry,
\* channelConfigSchema.partial() on defaults, which fills in nothing
loadConfig(file) ==
  ConfigFile(file.defaults,
             {[key |-> e.key, value |-> parseChannel(e.value)] : e \in file.channels})

\* { ...config.defaults, ...channelConfig }: a field the entry has wins
spread(defaults, entry) ==
  [field \in DOMAIN entry |-> IF entry[field].written THEN entry[field] ELSE defaults[field]]

\* value ?? fallback
orElse(setting, fallback) == IF setting.written THEN setting ELSE Setting(TRUE, fallback)

\* The object built from defaults alone; it has no responseFilter field
fromDefaults(defaults) ==
  ChannelConfig(defaults.workingDirectory, orElse(defaults.command, SchemaCommand),
                orElse(defaults.sessionTTL, SchemaSessionTTL), defaults.systemPrompt,
                NoFilterSetting)

\* getChannelConfig on the loaded configuration
getChannelConfig(cfg, key) ==
  LET channelKey == makeChannelKey(key)
  IN IF \E e \in cfg.channels : e.key = channelKey
       THEN Present(spread(cfg.defaults.value,
                           (CHOOSE e \in cfg.channels : e.key = channelKey).value))
     ELSE IF cfg.defaults.present /\ cfg.defaults.value.workingDirectory.written
       THEN Present(fromDefaults(cfg.defaults.value))
     ELSE Missing

\* channelId.startsWith('D')
isDirect(key) == startsWith(key.channelId, <<"D">>)

\* defaultFilter?.allowDMs ?? true
defaultsAllowDMs(cfg) ==
  IF cfg.defaults.present /\ cfg.defaults.value.responseFilter.written
    THEN cfg.defaults.value.responseFilter.value.allowDMs
    ELSE TRUE

\* The object the app.message handler builds for a DM from defaults
dmFromDefaults(defaults) ==
  ChannelConfig(defaults.workingDirectory, orElse(defaults.command, SchemaCommand),
                orElse(defaults.sessionTTL, SchemaSessionTTL), defaults.systemPrompt,
                defaults.responseFilter)

\* The channel configuration the app.message handler goes on with, or Missing
\* when it returns before the filter
slackChannelConfig(cfg, key) ==
  LET channelConfig == getChannelConfig(cfg, key)
  IN IF channelConfig.present THEN channelConfig
     ELSE IF ~isDirect(key) THEN Missing
     ELSE IF ~defaultsAllowDMs(cfg) THEN Missing
     ELSE IF cfg.defaults.present /\ cfg.defaults.value.workingDirectory.written
       THEN Present(dmFromDefaults(cfg.defaults.value))
     ELSE Missing

\* The app.message handler up to getOrCreateSession: TRUE when it goes on to
\* create the session, FALSE when it returns
slackAdmits(cfg, key, context) ==
  LET channelConfig == slackChannelConfig(cfg, key)
  IN /\ channelConfig.present
     /\ shouldRespondToMessage(channelConfig.value.responseFilter.value, context)

\* A file, the key and context of a Slack message, and once the handler ran:
\* getChannelConfig's result and whether the message was taken up
Resolution(file, key, context, resolved, channelConfig, admitted) ==
  [file |-> file, key |-> key, context |-> context, resolved |-> resolved,
   channelConfig |-> channelConfig, admitted |-> admitted]

NoResolution ==
  Resolution(ConfigFile(Missing, {}), ChannelKey("slack", <<>>, <<>>),
             MessageFilterContext(<<>>, FALSE, FALSE, FALSE), FALSE, Missing, FALSE)

-----------------------------------------------------------------------------
\* Inbound message handlers

IdleHandler ==
  [pc |-> "idle", platform |-> "none",
   sid |-> Null, claude |-> NullText, expiresAt |-> 0,   \* the Session object
   acked |-> FALSE,                      \* the acknowledgement was sent
   registered |-> FALSE,                 \* activeContexts.set was executed
   env |-> Undefined, resume |-> NullText, \* what the agent process was given
   outcome |-> "none", pending |-> "none",
   finals |-> <<>>,                      \* final contents delivered to the thread
   sendFailed |-> FALSE,                 \* a platform call of this handler threw
   rejected |-> FALSE]                   \* an error left the handler: its promise rejected

Init ==
  /\ now = 0
  /\ sessions = {}
  /\ messageLog = {}
  /\ nextId = 1
  /\ slackContexts = EmptyRegistry
  /\ teamsContexts = EmptyRegistry
  /\ handlers = [h \in Handlers |-> IdleHandler]
  /\ slackApp \in BOOLEAN
  /\ teamsAdapter \in BOOLEAN
  /\ conversationReferences = {}
  /\ config = DeployedConfig
  /\ call = NoCall
  /\ reply = NoReply
  /\ decision = NoDecision
  /\ keyTrip = NoTrip
  /\ resolution = NoResolution

\* getOrCreateSession + logMessage(session.id, 'in', text), then the
\* acknowledgement is sent (its await is the next step)
ObtainSession(h, key) ==
  LET g == getOrCreateSession(sessions, key, sessionTTL(key), now, nextId)
  IN /\ g.created => nextId <= MaxSessions
     /\ sessions' = g.db
     /\ nextId' = IF g.created THEN nextId + 1 ELSE nextId
     /\ messageLog' = logMessage(messageLog, g.session.id)
     /\ handlers' = [handlers EXCEPT ![h] =
          [IdleHandler EXCEPT !.pc = "ack", !.platform = key.platform,
                    !.sid = g.session.id, !.claude = g.session.claude_session_id,
                    !.expiresAt = g.session.expires_at]]

\* The Session object a handler holds
SessionOf(h) == [id |-> handlers[h].sid, claude_session_id |-> handlers[h].claude]

\* A handler that does not store the agent's session id
bindAgentSession_Never(db, session, agent, t) == db

\* After execute: updateClaudeSessionId when the result carries an agent
\* session id that differs from the one the handler's Session object holds
bindAgentSession(db, session, agent, t) ==
  IF agent # NullText /\ agent # session.claude_session_id
    THEN updateClaudeSessionId(db, session.id, agent, t)
    ELSE db

\* executor.execute(...) is called: the process is spawned with its environment
StartExecute(rec, h) ==
  LET options == adapterExecuteOptions(SessionOf(h))
  IN [rec EXCEPT !.pc = "executing", !.env = spawnEnvSessionId(options),
                 !.resume = resumeArg(options)]

\* The agent process is gone, and session.claudeSessionId was read for the
\* last time (the comparison after execute)
Executed(rec) == [rec EXCEPT !.claude = NullText, !.env = Undefined, !.resume = NullText]

\* The handler returned (or rejected).  What the thread was shown stays on
\* record until the slot takes the next message.
Finish(rec) ==
  [IdleHandler EXCEPT !.pc = "done", !.outcome = rec.outcome, !.finals = rec.finals,
                      !.sendFailed = rec.sendFailed, !.rejected = rec.rejected]

\* conversationReferences.set(channelId, reference)
storeConversationReference(refs, channelId) == refs \cup {channelId}

\* A slot that can take an inbound message
Free(h) == handlers[h].pc \in {"idle", "done"}

\* app.message: the message passed the subtype and mention checks and the
\* handler awaits client.auth.test()
SlackReceive(h) ==
  /\ slackApp
  /\ Free(h)
  /\ handlers' = [handlers EXCEPT ![h] = [IdleHandler EXCEPT !.pc = "auth", !.platform = "slack"]]
  /\ UNCHANGED <<now, sessions, messageLog, nextId, slackContexts, teamsContexts, adapters, conversationReferences, ingress, decision, lookups>>

\* auth.test resolved: config, filter, getOrCreateSession, logMessage, say(ack)
SlackGetSession(h) ==
  /\ handlers[h].pc = "auth"
  /\ handlers[h].platform = "slack"
  /\ ObtainSession(h, SlackKey)
  /\ UNCHANGED <<now, slackContexts, teamsContexts, adapters, conversationReferences, ingress, decision, lookups>>

\* What is on record of a message that the handler ignored
Ignored == [IdleHandler EXCEPT !.pc = "done", !.outcome = "filtered"]

\* A handler that applies the response filter after it obtained the session
SlackFiltered_AfterSession(h) ==
  LET g == getOrCreateSession(sessions, SlackKey, sessionTTL(SlackKey), now, nextId)
  IN /\ handlers[h].pc = "auth"
     /\ handlers[h].platform = "slack"
     /\ g.created => nextId <= MaxSessions
     /\ sessions' = g.db
     /\ nextId' = IF g.created THEN nextId + 1 ELSE nextId
     /\ handlers' = [handlers EXCEPT ![h] = Ignored]
     /\ UNCHANGED <<now, messageLog, slackContexts, teamsContexts, adapters, conversationReferences, ingress, decision, lookups>>

\* auth.test resolved and shouldRespondToMessage answered false (or the channel
\* has no configuration): the handler returns
SlackFiltered(h) ==
  /\ handlers[h].pc = "auth"
  /\ handlers[h].platform = "slack"
  /\ handlers' = [handlers EXCEPT ![h] = Ignored]
  /\ UNCHANGED <<now, sessions, messageLog, nextId, slackContexts, teamsContexts, adapters, conversationReferences, ingress, decision, lookups>>

\* say(ack) resolved with the ts of the acknowledgement: the context is
\* stored and executor.execute is called; or say threw and the handler rejects
SlackAckDone(h, ok) ==
  /\ handlers[h].pc = "ack"
  /\ handlers[h].platform = "slack"
  /\ IF ok
       THEN /\ slackContexts' = register(slackContexts, handlers[h].sid, ContextOf(SlackKey, h))
            /\ handlers' = [handlers EXCEPT ![h] =
                 StartExecute([@ EXCEPT !.acked = TRUE, !.registered = TRUE], h)]
       ELSE /\ slackContexts' = slackContexts
            /\ handlers' = [handlers EXCEPT ![h] = Finish([@ EXCEPT !.sendFailed = TRUE, !.rejected = TRUE])]
  /\ UNCHANGED <<now, sessions, messageLog, nextId, teamsContexts, adapters, conversationReferences, ingress, decision, lookups>>

\* executor.execute settled.  A result: updateClaudeSessionId when the result
\* carries a new agent session id, then client.chat.update(response) is
\* awaited.  An exception: the catch block awaits client.chat.update(error).
SlackExecuteDone(h, outcome, agent) ==
  /\ handlers[h].pc = "executing"
  /\ handlers[h].platform = "slack"
  /\ agent \in ResultAgentIds(outcome)
  /\ IF outcome = "throw"
       THEN /\ handlers' = [handlers EXCEPT ![h] =
                 Executed([@ EXCEPT !.pc = "catchSend", !.outcome = outcome, !.pending = "error"])]
            /\ sessions' = sessions
       ELSE /\ sessions' = bindAgentSession(sessions, SessionOf(h), agent, now)
            /\ handlers' = [handlers EXCEPT ![h] =
                 Executed([@ EXCEPT !.pc = "respond", !.outcome = outcome, !.pending = responseKind(outcome)])]
  /\ UNCHANGED <<now, messageLog, nextId, slackContexts, teamsContexts, adapters, conversationReferences, ingress, decision, lookups>>

\* client.chat.update(response) settled.  Resolved: logMessage(session.id,
\* 'out', ...) and the finally block; a failing INSERT goes to the catch block.
\* Rejected: the catch block awaits client.chat.update(error).
SlackRespondDone(h, ok) ==
  /\ handlers[h].pc = "respond"
  /\ handlers[h].platform = "slack"
  /\ IF ok /\ ~logMessageThrows(sessions, handlers[h].sid)
       THEN /\ messageLog' = logMessage(messageLog, handlers[h].sid)
            /\ slackContexts' = unregister(slackContexts, handlers[h].sid)
            /\ handlers' = [handlers EXCEPT ![h] =
                 Finish([@ EXCEPT !.finals = Append(@, handlers[h].pending)])]
       ELSE /\ messageLog' = messageLog
            /\ slackContexts' = slackContexts
            /\ handlers' = [handlers EXCEPT ![h] =
                 [@ EXCEPT !.pc = "catchSend", !.pending = "error",
                           !.finals = IF ok THEN Append(@, handlers[h].pending) ELSE @,
                           !.sendFailed = @ \/ ~ok]]
  /\ UNCHANGED <<now, sessions, nextId, teamsContexts, adapters, conversationReferences, ingress, decision, lookups>>

\* client.chat.update(error) of the catch block settled, then the finally block
SlackCatchDone(h, ok) ==
  /\ handlers[h].pc = "catchSend"
  /\ handlers[h].platform = "slack"
  /\ slackContexts' = unregister(slackContexts, handlers[h].sid)
  /\ handlers' = [handlers EXCEPT ![h] =
       Finish([@ EXCEPT !.finals = IF ok THEN Append(@, "error") ELSE @,
                        !.sendFailed = @ \/ ~ok, !.rejected = ~ok])]
  /\ UNCHANGED <<now, sessions, messageLog, nextId, teamsContexts, adapters, conversationReferences, ingress, decision, lookups>>

\* handleMessage up to its first await: config, filter,
\* storeConversationReference, getOrCreateSession, logMessage, sendActivity(ack)
TeamsReceive(h) ==
  /\ teamsAdapter
  /\ Free(h)
  /\ conversationReferences' = storeConversationReference(conversationReferences, TeamsKey.channelId)
  /\ ObtainSession(h, TeamsKey)
  /\ UNCHANGED <<now, slackContexts, teamsContexts, adapters, ingress, decision, lookups>>

\* handleMessage when shouldRespondToMessage answers false (or the
\* conversation has no configuration): it returns before its first await
TeamsFiltered(h) ==
  /\ teamsAdapter
  /\ Free(h)
  /\ handlers' = [handlers EXCEPT ![h] = Ignored]
  /\ UNCHANGED <<now, sessions, messageLog, nextId, slackContexts, teamsContexts, adapters, conversationReferences, ingress, decision, lookups>>

\* sendActivity(ack) resolved: the context is stored and the typing indicator
\* is awaited; or it threw and the handler rejects
TeamsAckDone(h, ok) ==
  /\ handlers[h].pc = "ack"
  /\ handlers[h].platform = "teams"
  /\ IF ok
       THEN /\ teamsContexts' = register(teamsContexts, handlers[h].sid, ContextOf(TeamsKey, h))
            /\ handlers' = [handlers EXCEPT ![h] =
                 [@ EXCEPT !.pc = "typing", !.acked = TRUE, !.registered = TRUE]]
       ELSE /\ teamsContexts' = teamsContexts
            /\ handlers' = [handlers EXCEPT ![h] = Finish([@ EXCEPT !.sendFailed = TRUE, !.rejected = TRUE])]
  /\ UNCHANGED <<now, sessions, messageLog, nextId, slackContexts, adapters, conversationReferences, ingress, decision, lookups>>

\* sendActivities([typing]) settled: executor.execute is called, or the catch
\* block awaits sendActivity(error)
TeamsTypingDone(h, ok) ==
  /\ handlers[h].pc = "typing"
  /\ handlers[h].platform = "teams"
  /\ handlers' = [handlers EXCEPT ![h] =
       IF ok THEN StartExecute(@, h)
       ELSE [@ EXCEPT !.pc = "catchSend", !.pending = "error", !.sendFailed = TRUE]]
  /\ UNCHANGED <<now, sessions, messageLog, nextId, slackContexts, teamsContexts, adapters, conversationReferences, ingress, decision, lookups>>

\* executor.execute settled; updateActivity(ack id) or sendActivity of the
\* response card is awaited, or the catch block's sendActivity(error)
TeamsExecuteDone(h, outcome, agent) ==
  /\ handlers[h].pc = "executing"
  /\ handlers[h].platform = "teams"
  /\ agent \in ResultAgentIds(outcome)
  /\ IF outcome = "throw"
       THEN /\ handlers' = [handlers EXCEPT ![h] =
                 Executed([@ EXCEPT !.pc = "catchSend", !.outcome = outcome, !.pending = "error"])]
            /\ sessions' = sessions
       ELSE /\ sessions' = bindAgentSession(sessions, SessionOf(h), agent, now)
            /\ handlers' = [handlers EXCEPT ![h] =
                 Executed([@ EXCEPT !.pc = "respond", !.outcome = outcome, !.pending = responseKind(outcome)])]
  /\ UNCHANGED <<now, messageLog, nextId, slackContexts, teamsContexts, adapters, conversationReferences, ingress, decision, lookups>>

\* The response card was delivered or the call threw; logMessage 'out'; finally
TeamsRespondDone(h, ok) ==
  /\ handlers[h].pc = "respond"
  /\ handlers[h].platform = "teams"
  /\ IF ok /\ ~logMessageThrows(sessions, handlers[h].sid)
       THEN /\ messageLog' = logMessage(messageLog, handlers[h].sid)
            /\ teamsContexts' = unregister(teamsContexts, handlers[h].sid)
            /\ handlers' = [handlers EXCEPT ![h] =
                 Finish([@ EXCEPT !.finals = Append(@, handlers[h].pending)])]
       ELSE /\ messageLog' = messageLog
            /\ teamsContexts' = teamsContexts
            /\ handlers' = [handlers EXCEPT ![h] =
                 [@ EXCEPT !.pc = "catchSend", !.pending = "error",
                           !.finals = IF ok THEN Append(@, handlers[h].pending) ELSE @,
                           !.sendFailed = @ \/ ~ok]]
  /\ UNCHANGED <<now, sessions, nextId, slackContexts, adapters, conversationReferences, ingress, decision, lookups>>

\* sendActivity(errorCard) of the catch block settled, then the finally block
TeamsCatchDone(h, ok) ==
  /\ handlers[h].pc = "catchSend"
  /\ handlers[h].platform = "teams"
  /\ teamsContexts' = unregister(teamsContexts, handlers[h].sid)
  /\ handlers' = [handlers EXCEPT ![h] =
       Finish([@ EXCEPT !.finals = IF ok THEN Append(@, "error") ELSE @,
                        !.sendFailed = @ \/ ~ok, !.rejected = ~ok])]
  /\ UNCHANGED <<now, sessions, messageLog, nextId, slackContexts, adapters, conversationReferences, ingress, decision, lookups>>

-----------------------------------------------------------------------------
\* Callbacks, the sweep and the clock

\* POST /callback {session_id, message}: the answer (200 / 404) is sendUpdate's
\* result.  sendUpdate reads the store and the registries and writes neither.
Callback(sessionId, postOk) ==
  /\ callbackResponse(Body(TRUE, sessionId, "", "", UpdateText),
                      sessions, slackContexts, teamsContexts, postOk).status \in {200, 404}
  /\ UNCHANGED vars

\* The setInterval callback of server.ts: cleanupExpiredSessions()
Cleanup ==
  /\ sessions' = cleanupExpiredSessions(sessions, now)
  /\ messageLog' = cascade(messageLog, sessions')
  /\ UNCHANGED <<now, nextId, slackContexts, teamsContexts, handlers, adapters, conversationReferences, ingress, decision, lookups>>

\* Date.now() advances
Tick ==
  /\ now < MaxTime
  /\ now' = now + 1
  /\ UNCHANGED <<sessions, messageLog, nextId, slackContexts, teamsContexts, handlers, adapters, conversationReferences, ingress, decision, lookups>>

Next ==
  \/ \E h \in Handlers : SlackReceive(h)
  \/ \E h \in Handlers : SlackGetSession(h)
  \/ \E h \in Handlers : SlackFiltered(h)
  \/ \E h \in Handlers, ok \in BOOLEAN : SlackAckDone(h, ok)
  \/ \E h \in Handlers, o \in Outcomes, a \in AgentIds \cup {NullText} : SlackExecuteDone(h, o, a)
  \/ \E h \in Handlers, ok \in BOOLEAN : SlackRespondDone(h, ok)
  \/ \E h \in Handlers, ok \in BOOLEAN : SlackCatchDone(h, ok)
  \/ \E h \in Handlers : TeamsReceive(h)
  \/ \E h \in Handlers : TeamsFiltered(h)
  \/ \E h \in Handlers, ok \in BOOLEAN : TeamsAckDone(h, ok)
  \/ \E h \in Handlers, ok \in BOOLEAN : TeamsTypingDone(h, ok)
  \/ \E h \in Handlers, o \in Outcomes, a \in AgentIds \cup {NullText} : TeamsExecuteDone(h, o, a)
  \/ \E h \in Handlers, ok \in BOOLEAN : TeamsRespondDone(h, ok)
  \/ \E h \in Handlers, ok \in BOOLEAN : TeamsCatchDone(h, ok)
  \/ \E s \in SessionIds, ok \in BOOLEAN : Callback(s, ok)
  \/ Cleanup
  \/ Tick

Spec == Init /\ [][Next]_vars

-----------------------------------------------------------------------------
\* The callback server on its own: requests of every shape reach a server
\* that has handled some messages and is handling none.

\* Sequences of at most n distinct elements of S
RECURSIVE Lists(_, _)
Lists(S, n) ==
  IF n = 0 THEN {<<>>}
  ELSE LET shorter == Lists(S, n - 1)
       IN shorter \cup {Append(l, x) : l \in shorter, x \in S}

Distinct(l) == \A i, j \in DOMAIN l : l[i] = l[j] => i = j

\* Keys a config file may hold: the same Slack channel id in two workspaces,
\* the Teams conversation, and a key that is not of the form platform:ws/ch
ConfigKeyUniverse ==
  {ConfigKey("slack", "T1", "C1"), ConfigKey("slack", "T2", "C1"),
   ConfigKey("teams", "tenant1", "conv1"), ConfigKey("discord", "G1", "C1")}

Configs == {l \in Lists(ConfigKeyUniverse, MaxConfig) : Distinct(l)}

\* Channels of a conversations.list answer: one with a name, one without
LiveChannels == {[id |-> "C1", name |-> "general"], [id |-> "C2", name |-> NoName]}

Listings ==
  {Listing(FALSE, <<>>)} \cup {Listing(TRUE, l) : l \in Lists(LiveChannels, MaxLive)}

PayloadSessionIds == SessionIds \cup {UnknownSessionId, EmptyString}

CallbackBodies ==
  {UnparseableBody} \cup
  {Body(TRUE, s, "", "", m) : s \in PayloadSessionIds, m \in {EmptyString, UpdateText}}

MessageBodies ==
  {UnparseableBody} \cup
  {Body(TRUE, s, pl, ch, m) :
     s \in PayloadSessionIds, pl \in {"", "slack", "teams", "discord"},
     ch \in {"", "C1", "conv1", "conv2"}, m \in {EmptyString, UpdateText}}

ChannelQueries == {Body(TRUE, s, "", "", EmptyString) : s \in PayloadSessionIds}

\* The store after one message of each of the given conversations was handled
\* at time 0, the Slack one first
RECURSIVE Handled(_, _, _)
Handled(db, keys, id) ==
  IF keys = <<>> THEN db
  ELSE Handled(getOrCreateSession(db, Head(keys), sessionTTL(Head(keys)), 0, id).db,
               Tail(keys), id + 1)

\* What a handler that delivered its response leaves on record
Responded == [IdleHandler EXCEPT !.pc = "done", !.outcome = "ok", !.finals = <<"response">>]

InitIngress ==
  /\ now = 0
  /\ slackApp \in BOOLEAN
  /\ teamsAdapter \in BOOLEAN
  /\ \E keys \in {<<>>, <<SlackKey>>, <<TeamsKey>>, <<SlackKey, TeamsKey>>} :
       /\ (keys # <<>> /\ Head(keys) = SlackKey) => slackApp
       /\ (keys # <<>> /\ keys[Len(keys)] = TeamsKey) => teamsAdapter
       /\ sessions = Handled({}, keys, 1)
       /\ nextId = Len(keys) + 1
       /\ conversationReferences =
            IF keys # <<>> /\ keys[Len(keys)] = TeamsKey
              THEN storeConversationReference({}, TeamsKey.channelId) ELSE {}
       /\ handlers = [h \in Handlers |-> IF h = 1 /\ keys # <<>> THEN Responded ELSE IdleHandler]
  /\ messageLog = {[session_id |-> r.id] : r \in sessions}
  /\ slackContexts = EmptyRegistry
  /\ teamsContexts = EmptyRegistry
  /\ config \in Configs
  /\ call = NoCall
  /\ reply = NoReply
  /\ decision = NoDecision
  /\ keyTrip = NoTrip
  /\ resolution = NoResolution

\* POST /callback with any body
CallbackRequest(body, postOk) ==
  /\ call.n < MaxRequests
  /\ call' = Call(call.n + 1, "/callback", body, postOk, NoListing)
  /\ reply' = callbackResponse(body, sessions, slackContexts, teamsContexts, postOk)
  /\ UNCHANGED <<now, sessions, messageLog, nextId, slackContexts, teamsContexts, handlers,
                 adapters, conversationReferences, config, decision, lookups>>

\* POST /message with any body
MessageRequest(body, postOk) ==
  /\ call.n < MaxRequests
  /\ call' = Call(call.n + 1, "/message", body, postOk, NoListing)
  /\ reply' = messageResponse(body, slackApp, teamsAdapter, conversationReferences, postOk)
  /\ UNCHANGED <<now, sessions, messageLog, nextId, slackContexts, teamsContexts, handlers,
                 adapters, conversationReferences, config, decision, lookups>>

\* GET /channels with any query
ChannelsRequest(query, listing) ==
  /\ call.n < MaxRequests
  /\ call' = Call(call.n + 1, "/channels", query, TRUE, listing)
  /\ reply' = channelsResponse(query, sessions, config, slackApp, conversationReferences, listing)
  /\ UNCHANGED <<now, sessions, messageLog, nextId, slackContexts, teamsContexts, handlers,
                 adapters, conversationReferences, config, decision, lookups>>

NextIngress ==
  \/ \E body \in CallbackBodies, ok \in BOOLEAN : CallbackRequest(body, ok)
  \/ \E body \in MessageBodies, ok \in BOOLEAN : MessageRequest(body, ok)
  \/ \E query \in ChannelQueries, listing \in Listings : ChannelsRequest(query, listing)

IngressSpec == InitIngress /\ [][NextIngress]_vars

-----------------------------------------------------------------------------
\* The response filter on its own: shouldRespondToMessage applied to every
\* filter and message context of the bounds.

\* Sequences of at most n elements of S
RECURSIVE Seqs(_, _)
Seqs(S, n) ==
  IF n = 0 THEN {<<>>}
  ELSE LET shorter == Seqs(S, n - 1)
       IN shorter \cup {Append(l, x) : l \in shorter, x \in S}

\* Absent, or any of the given arrays
OptionalOf(arrays) == {Absent} \cup {Optional(TRUE, l) : l \in arrays}

\* Message texts over an alphabet with one letter in both cases
Characters == {"h", "H", "x"}
Texts == Seqs(Characters, MaxText)

FilterModes == {"all", "mentions", "keywords", "regex", "threads", "none"}
CombinableModes == {"mentions", "keywords", "regex", "threads"}

\* A keyword in lower case and one in upper case
Keywords == {<<"h">>, <<"H">>}

\* A pattern that does not compile and a literal one
Patterns == {[valid |-> FALSE, source |-> <<"(">>], [valid |-> TRUE, source |-> <<"H">>]}

Filters ==
  {NoFilter} \cup
  {ResponseFilter(mode, keywords, patterns, allowDMs, combineModes) :
     mode \in FilterModes,
     keywords \in OptionalOf(Seqs(Keywords, MaxKeywords)),
     patterns \in OptionalOf(Seqs(Patterns, MaxPatterns)),
     allowDMs \in BOOLEAN,
     combineModes \in OptionalOf({l \in Seqs(CombinableModes, MaxCombine) : Distinct(l)})}

Contexts ==
  {MessageFilterContext(text, isMention, isDM, isThread) :
     text \in Texts, isMention \in BOOLEAN, isDM \in BOOLEAN, isThread \in BOOLEAN}

InitFilter ==
  /\ now = 0
  /\ sessions = {}
  /\ messageLog = {}
  /\ nextId = 1
  /\ slackContexts = EmptyRegistry
  /\ teamsContexts = EmptyRegistry
  /\ handlers = [h \in Handlers |-> IdleHandler]
  /\ slackApp = TRUE
  /\ teamsAdapter = TRUE
  /\ conversationReferences = {}
  /\ config = DeployedConfig
  /\ call = NoCall
  /\ reply = NoReply
  /\ keyTrip = NoTrip
  /\ resolution = NoResolution
  /\ \E filter \in Filters, context \in Contexts :
       decision = Decision(filter, context, FALSE, FALSE)

\* The handler of a message asks the filter
Decide ==
  /\ ~decision.decided
  /\ decision' = Decision(decision.filter, decision.context, TRUE,
                          shouldRespondToMessage(decision.filter, decision.context))
  /\ UNCHANGED <<now, sessions, messageLog, nextId, slackContexts, teamsContexts, handlers,
                 adapters, conversationReferences, ingress, lookups>>

NextFilter == Decide

FilterSpec == InitFilter /\ [][NextFilter]_vars

-----------------------------------------------------------------------------
\* Channel keys through makeChannelKey and parseChannelKey

\* Identifiers over a letter, the separator and a line terminator
IdCharacters == {"a", "/", LineTerminator}
Identifiers == Seqs(IdCharacters, MaxIdLength)

ChannelKeys ==
  {ChannelKey(platform, workspaceId, channelId) :
     platform \in {"slack", "teams"}, workspaceId \in Identifiers, channelId \in Identifiers}

InitKeys ==
  /\ now = 0
  /\ sessions = {}
  /\ messageLog = {}
  /\ nextId = 1
  /\ slackContexts = EmptyRegistry
  /\ teamsContexts = EmptyRegistry
  /\ handlers = [h \in Handlers |-> IdleHandler]
  /\ slackApp = TRUE
  /\ teamsAdapter = TRUE
  /\ conversationReferences = {}
  /\ config = DeployedConfig
  /\ call = NoCall
  /\ reply = NoReply
  /\ decision = NoDecision
  /\ resolution = NoResolution
  /\ \E key \in ChannelKeys : keyTrip = KeyTrip(key, <<>>, FALSE, NoMatch)

\* parseChannelKey(makeChannelKey(key))
RoundTrip ==
  /\ ~keyTrip.parsed
  /\ LET text == makeChannelKey(keyTrip.key)
     IN keyTrip' = KeyTrip(keyTrip.key, text, TRUE, parseChannelKey(text))
  /\ UNCHANGED <<now, sessions, messageLog, nextId, slackContexts, teamsContexts, handlers,
                 adapters, conversationReferences, ingress, decision, resolution>>

NextKeys == RoundTrip

KeySpec == InitKeys /\ [][NextKeys]_vars

-----------------------------------------------------------------------------
\* A configuration file and a Slack message through getChannelConfig and the
\* app.message handler

\* Left out, or written with the value (any value stands for the one left out)
Written(value, blank) == {Setting(FALSE, blank), Setting(TRUE, value)}

\* Filters a file may carry: one that refuses DMs and one that answers all
FileFilters ==
  {NoFilterSetting,
   Setting(TRUE, ResponseFilter("mentions", Absent, Absent, FALSE, Absent)),
   Setting(TRUE, ResponseFilter("all", Absent, Absent, TRUE, Absent))}

\* defaults: channelConfigSchema.partial().optional()
DefaultsObjects ==
  {Missing} \cup
  {Present(ChannelConfig(workingDirectory, command, ttl, systemPrompt, responseFilter)) :
     workingDirectory \in Written("/default", ""),
     command \in Written("default-claude", ""),
     ttl \in Written(2, 0),
     systemPrompt \in Written("default prompt", ""),
     responseFilter \in FileFilters}

\* A channel entry: workingDirectory is required
ChannelEntries ==
  {ChannelConfig(Setting(TRUE, "/project"), command, ttl, systemPrompt, responseFilter) :
     command \in Written("channel-claude", ""),
     ttl \in Written(1, 0),
     systemPrompt \in Written("channel prompt", ""),
     responseFilter \in FileFilters}

\* A channel and a DM of one workspace
SlackMessageKeys == {ChannelKey("slack", <<"T">>, <<"C">>), ChannelKey("slack", <<"T">>, <<"D">>)}

\* Files with no entry, or with the entry of the message's channel
ConfigFilesFor(key) ==
  {ConfigFile(defaults, channels) :
     defaults \in DefaultsObjects,
     channels \in {{}} \cup {{[key |-> makeChannelKey(key), value |-> entry]} :
                                entry \in ChannelEntries}}

InitConfig ==
  /\ now = 0
  /\ sessions = {}
  /\ messageLog = {}
  /\ nextId = 1
  /\ slackContexts = EmptyRegistry
  /\ teamsContexts = EmptyRegistry
  /\ handlers = [h \in Handlers |-> IdleHandler]
  /\ slackApp = TRUE
  /\ teamsAdapter = TRUE
  /\ conversationReferences = {}
  /\ config = DeployedConfig
  /\ call = NoCall
  /\ reply = NoReply
  /\ decision = NoDecision
  /\ keyTrip = NoTrip
  /\ \E key \in SlackMessageKeys, isThread \in BOOLEAN :
       \E file \in ConfigFilesFor(key) :
         resolution = Resolution(file, key,
                                 MessageFilterContext(<<"x">>, FALSE, isDirect(key), isThread),
                                 FALSE, Missing, FALSE)

\* The app.message handler on the loaded file, up to getOrCreateSession
Resolve ==
  /\ ~resolution.resolved
  /\ LET cfg == loadConfig(resolution.file)
     IN resolution' = Resolution(resolution.file, resolution.key, resolution.context, TRUE,
                                 getChannelConfig(cfg, resolution.key),
                                 slackAdmits(cfg, resolution.key, resolution.context))
  /\ UNCHANGED <<now, sessions, messageLog, nextId, slackContexts, teamsContexts, handlers,
                 adapters, conversationReferences, ingress, decision, keyTrip>>

NextConfig == Resolve

ConfigSpec == InitConfig /\ [][NextConfig]_vars

-----------------------------------------------------------------------------
\* Properties

\* The rows of a conversation that a lookup at time t can return
LiveRows(db, key, t) == {r \in db : MatchesKey(r, key, t)}

\* The handler has stored its context and not yet run its finally block
Registered(h) == handlers[h].pc \in {"typing", "executing", "respond", "catchSend"}

\* The registry of a platform's adapter
RegistryOf(platform) == IF platform = "slack" THEN slackContexts ELSE teamsContexts

\* C1: in every reachable state, whatever the interleaving of handlers (which
\* may wait for auth.test before getOrCreateSession), sweep and clock, each
\* (platform, workspace, channel, thread) key has at most one row that has not
\* expired.
C1_OneLiveSessionPerKey ==
  \A key \in Keys : Cardinality(LiveRows(sessions, key, now)) <= 1

\* C1 witness: two messages of the same Slack thread are in flight at once,
\* both past getOrCreateSession, and the thread has exactly one row.
C1_TwoCloseMessages ==
  \E h1, h2 \in Handlers :
    /\ h1 # h2
    /\ handlers[h1].platform = "slack" /\ handlers[h2].platform = "slack"
    /\ handlers[h1].pc = "ack" /\ handlers[h2].pc = "ack"
    /\ Cardinality({r \in sessions : HasKey(r, SlackKey)}) = 1

\* C2: an entry of a registry belongs to a handler that has sent its
\* acknowledgement and has not finished, an invocation is running only for a
\* handler that stored its context before, and a handler that has finished
\* (with a response, a failure result, a timeout or an exception) has left no
\* entry.
C2_ContextWhileHandling ==
  \A h \in Handlers :
    /\ \A s \in SessionIds, p \in Platforms :
         RegistryOf(p)[s].msg = h =>
           /\ handlers[h].acked
           /\ Registered(h)
           /\ handlers[h].sid = s /\ handlers[h].platform = p
    /\ handlers[h].pc = "executing" => handlers[h].acked /\ handlers[h].registered
    /\ handlers[h].registered => handlers[h].acked
    /\ handlers[h].pc \in {"idle", "auth", "ack", "done"} => ~handlers[h].registered

\* C2 witness: a handler whose invocation threw has finished after delivering
\* the error, and both registries are empty.
C2_FinishedAfterThrow ==
  \E h \in Handlers :
    /\ handlers[h].pc = "done"
    /\ handlers[h].outcome = "throw"
    /\ handlers[h].finals = <<"error">>
    /\ slackContexts = EmptyRegistry /\ teamsContexts = EmptyRegistry

\* C3: while the agent of a handler runs, its PROMPTTY_SESSION_ID is the id of
\* the handler's session, so that post_update sends a request for that session.
C3_AgentKnowsSessionId ==
  \A h \in Handlers :
    handlers[h].pc = "executing" =>
      /\ handlers[h].env = handlers[h].sid
      /\ postUpdateRequest(handlers[h].env) = [sent |-> TRUE, session_id |-> handlers[h].sid]

\* C4: in every reachable state, sendUpdate for a session id that has no row,
\* or whose platform's registry holds no context for it, answers false and
\* posts nothing, whether or not a post would succeed.
C4_UnroutableUpdateIsFalse ==
  \A s \in SessionIds \cup {Null}, postOk \in BOOLEAN :
    LET session == getSessionById(sessions, s)
        r == sendUpdate(sessions, slackContexts, teamsContexts, s, postOk)
    IN (\/ session = NoRow
        \/ getActiveContext(RegistryOf(session.platform), s) = NoContext)
         => r.result = FALSE /\ r.posted = NoContext

\* C4 witness: a handler has delivered its final content and gone, its session
\* is still in the table, no context is registered, and an update for the
\* session is answered with false.
C4_CallbackAfterUnregistration ==
  \E r \in sessions, h \in Handlers :
    /\ handlers[h].pc = "done" /\ handlers[h].finals # <<>>
    /\ \A g \in Handlers : handlers[g].sid # r.id
    /\ slackContexts[r.id] = NoContext /\ teamsContexts[r.id] = NoContext
    /\ ~sendUpdate(sessions, slackContexts, teamsContexts, r.id, TRUE).result

\* C5: no two handlers are between activeContexts.set and
\* activeContexts.delete for the same session id at the same time.
C5_NoConcurrentRegistration ==
  \A h1, h2 \in Handlers :
    (h1 # h2 /\ Registered(h1) /\ Registered(h2)) => handlers[h1].sid # handlers[h2].sid

\* The ids of the rows of a table
Ids(db) == {r.id : r \in db}

\* The instants of the model from t on
From(t) == {u \in 0..MaxTime : u >= t}

\* C6: from every reachable state, getOrCreateSession now and again at a later
\* instant at which the session of the first call has not expired, with the
\* same key and ttl, return the same id, and the second call adds no row.
C6_GetOrCreateTwice ==
  \A key \in Keys : \A t2 \in From(now) :
    LET first == getOrCreateSession(sessions, key, sessionTTL(key), now, nextId)
        second == getOrCreateSession(first.db, key, sessionTTL(key), t2, nextId + 1)
    IN t2 < first.session.expires_at =>
         /\ second.session.id = first.session.id
         /\ ~second.created
         /\ Ids(second.db) = Ids(first.db)

\* C6 witness: two handlers hold the same session, obtained at different
\* instants, and the table has that one row.
C6_SameSessionTwice ==
  \E h1, h2 \in Handlers, r \in sessions :
    /\ h1 # h2
    /\ handlers[h1].sid = r.id /\ handlers[h2].sid = r.id
    /\ r.last_activity > r.created_at
    /\ sessions = {r}

\* C7: in every reachable state a row whose expiry has been reached is not
\* what the lookup by its key returns, swept or not, and getOrCreateSession
\* for its key returns another id.
C7_ExpiredNeverReturned ==
  \A key \in Keys : \A r \in sessions :
    (HasKey(r, key) /\ r.expires_at <= now) =>
      /\ findSessionRow(sessions, key, now).id # r.id
      /\ getOrCreateSession(sessions, key, sessionTTL(key), now, nextId).session.id # r.id

\* C7 witness: an expired row is still in the table and a handler holds a
\* newer session of the same conversation.
C7_ExpiredRowAndNewSession ==
  \E old, new \in sessions, h \in Handlers, key \in Keys :
    /\ HasKey(old, key) /\ HasKey(new, key)
    /\ old.expires_at <= now
    /\ new.created_at >= old.expires_at
    /\ handlers[h].sid = new.id

\* The row of a table with the given id
RowAfter(db, id) == CHOOSE r \in db : r.id = id

\* C8 as amended: in every reachable state a successful lookup by key sets the
\* row's last_activity to the time of the lookup and leaves its expiry where
\* createSession put it, ttl after the creation.
C8_LookupRefreshesActivityOnly ==
  \A key \in Keys :
    LET found == findSessionRow(sessions, key, now)
        after == RowAfter(findSessionDb(sessions, key, now), found.id)
    IN found # NoRow =>
         /\ after.last_activity = now
         /\ after.expires_at = found.expires_at
         /\ after.expires_at = after.created_at + sessionTTL(key)

\* C8 witness: a handler holds a session that a lookup returned after the
\* instant of its creation.
C8_LookedUpLater ==
  \E h \in Handlers, r \in sessions :
    /\ handlers[h].sid = r.id
    /\ handlers[h].pc = "ack"
    /\ r.last_activity > r.created_at
    /\ r.claude_session_id = NullText
    /\ r.expires_at = r.created_at + (IF r.platform = "slack" THEN SlackTTL ELSE TeamsTTL)

\* C8 as stated: a successful lookup by key refreshes the last activity and
\* the expiry, which is then ttl after the lookup.
C8_LookupRefreshesExpiry ==
  \A key \in Keys :
    LET found == findSessionRow(sessions, key, now)
        after == RowAfter(findSessionDb(sessions, key, now), found.id)
    IN found # NoRow =>
         /\ after.last_activity = now
         /\ after.expires_at = now + sessionTTL(key)

\* C9: a message that finds the session of its conversation, and a next
\* message of the conversation less than sessionTTL later, are served by the
\* same session id.
C9_ActiveConversationKeepsSession ==
  \A key \in Keys : \A t2 \in From(now) :
    LET first == getOrCreateSession(sessions, key, sessionTTL(key), now, nextId)
        second == getOrCreateSession(first.db, key, sessionTTL(key), t2, nextId + 1)
    IN t2 - now < sessionTTL(key) => second.session.id = first.session.id

\* C10: a handler whose invocation timed out and whose platform calls all
\* succeeded has delivered exactly one final content, the error.
C10_TimeoutOneError ==
  \A h \in Handlers :
    (handlers[h].pc = "done" /\ handlers[h].outcome = "timeout" /\ ~handlers[h].sendFailed)
      => handlers[h].finals = <<"error">>

\* C11: once a handler has issued the write of its final content (the
\* response, or the error of the catch block), no callback update is posted
\* to the context of that inbound message any more.
C11_NoUpdateAfterFinalWrite ==
  \A h \in Handlers :
    handlers[h].pc \in {"respond", "catchSend"} =>
      \A s \in SessionIds :
        LET u == sendUpdate(sessions, slackContexts, teamsContexts, s, TRUE)
        IN ~(u.result /\ u.posted.msg = h)

\* The final contents a handler delivered
Delivered(h) == {handlers[h].finals[i] : i \in DOMAIN handlers[h].finals}

\* C12: a handler whose invocation failed (failure result, timeout, or an
\* exception out of the executor) and whose platform calls succeeded has
\* delivered the formatted error to its thread, has delivered no response,
\* and returned without an uncaught error.
C12_FailedInvocationReportsError ==
  \A h \in Handlers :
    (/\ handlers[h].pc = "done"
     /\ handlers[h].outcome \in {"fail", "timeout", "throw"}
     /\ ~handlers[h].sendFailed)
      => /\ Delivered(h) = {"error"}
         /\ ~handlers[h].rejected

\* C12 witness: handlers have returned after a failure result, after a
\* timeout and after an exception, each with an error delivered.
C12_FailuresReported ==
  \E h1, h2 \in Handlers :
    /\ handlers[h1].pc = "done" /\ handlers[h1].outcome = "throw"
    /\ handlers[h1].finals = <<"error">> /\ ~handlers[h1].rejected
    /\ handlers[h2].pc = "done" /\ handlers[h2].outcome \in {"fail", "timeout"}
    /\ handlers[h2].finals = <<"error">> /\ ~handlers[h2].rejected

\* C13: in every reachable state, POST /callback with both fields present
\* answers 200 exactly when the update was posted to the session's context,
\* 404 exactly when the session is unknown or has no active context, and a
\* server error when the post to the context of an active session fails.
C13_CallbackStatusTellsCause ==
  \A s \in SessionIds \cup {UnknownSessionId}, postOk \in BOOLEAN :
    LET r == callbackResponse(Body(TRUE, s, "", "", UpdateText),
                              sessions, slackContexts, teamsContexts, postOk)
        session == getSessionById(sessions, s)
        active == /\ session # NoRow
                  /\ getActiveContext(RegistryOf(session.platform), s) # NoContext
    IN /\ r.status = 200 <=> r.posted # NoContext
       /\ r.status = 404 <=> ~active
       /\ (active /\ ~postOk) => r.status = 500

\* The request lacks what its endpoint requires: the body is unparseable, or
\* a required field is missing or empty
Incomplete(c) ==
  \/ c.endpoint \in {"/callback", "/message"} /\ ~c.body.parsed
  \/ c.endpoint # "none" /\ c.body.session_id = EmptyString
  \/ c.endpoint \in {"/callback", "/message"} /\ c.body.message = EmptyString
  \/ c.endpoint = "/message" /\ (c.body.platform = "" \/ c.body.channel_id = "")

\* C14: a request to /callback, /message or /channels whose payload is
\* malformed or incomplete is answered with status 400, and the router was
\* not called for it.
C14_IncompleteRequestIs400 ==
  Incomplete(call) => (reply.status = 400 /\ ~reply.routed)

\* C15: no handler of an inbound message ends with an error that escaped it:
\* every failure met while handling the message was caught inside the handler.
C15_NoHandlerRejects ==
  \A h \in Handlers : handlers[h].pc = "done" => ~handlers[h].rejected

\* The target channel of a /message body has no addressing handle: its
\* platform's adapter is not initialised, or (Teams) no conversation
\* reference is stored for it
NoHandle(body) ==
  \/ body.platform = "slack" /\ ~slackApp
  \/ body.platform = "teams" /\ ~teamsAdapter
  \/ body.platform = "teams" /\ body.channel_id \notin conversationReferences

\* C16: when sendToChannel was called for a target without an addressing
\* handle, it returned success = false with a non-empty error and sent
\* nothing, and it returned rather than threw (the answer is the 400 that
\* carries the result's error, not the 500 of the catch block).
C16_NoHandleGivesError ==
  (call.endpoint = "/message" /\ reply.routed /\ NoHandle(call.body)) =>
     /\ ~reply.result.success
     /\ reply.result.error # ""
     /\ reply.result.sent = Nowhere
     /\ reply.status = 400

\* C16 witness: the Teams adapter runs and holds the reference of conv1; a
\* message for conv2, which the platform would have accepted, got an error.
C16_UnknownConversation ==
  /\ call.endpoint = "/message"
  /\ call.body.platform = "teams" /\ call.body.channel_id = "conv2"
  /\ call.postOk
  /\ teamsAdapter /\ conversationReferences = {"conv1"}
  /\ reply.routed /\ ~reply.result.success

\* C17: the answer to a POST /message with a non-empty session_id (status,
\* result and the channel that received the message) is the answer the same
\* request gets with any other non-empty session_id, of a session or of none,
\* in the same store, adapters and caches; and no active context was used or
\* touched.
C17_SessionIdDoesNotRoute ==
  (call.endpoint = "/message" /\ call.body.parsed /\ call.body.session_id # EmptyString) =>
     /\ \A s \in PayloadSessionIds \ {EmptyString} :
          messageResponse([call.body EXCEPT !.session_id = s], slackApp, teamsAdapter,
                          conversationReferences, call.postOk) = reply
     /\ reply.posted = NoContext
     /\ slackContexts = EmptyRegistry /\ teamsContexts = EmptyRegistry

\* C17 witness: a request that names no existing session delivered its
\* message to the Teams conversation, while the store holds sessions.
C17_DeliveredForUnknownSession ==
  /\ call.endpoint = "/message"
  /\ call.body.session_id = UnknownSessionId
  /\ sessions # {}
  /\ reply.status = 200
  /\ reply.result.sent = [platform |-> "teams", channelId |-> "conv1"]

\* The live channels the router got for the session of a /channels request
LiveFor(c) ==
  LET session == getSessionById(sessions, c.body.session_id)
  IN IF session = NoRow THEN <<>>
     ELSE IF session.platform = "slack" THEN getSlackChannels(slackApp, c.listing)
     ELSE getTeamsChannels(conversationReferences)

\* C18: the list a /channels request returned has at most one entry per
\* (platform, channelId); an entry of a configured channel has configured =
\* true, and bears the name of the live channel when the platform reported
\* that channel with a name.
C18_OneEntryPerChannel ==
  (call.endpoint = "/channels" /\ reply.routed) =>
    LET channels == reply.channels
        live == LiveFor(call)
    IN /\ \A i, j \in DOMAIN channels :
            (channels[i].platform = channels[j].platform
               /\ channels[i].channelId = channels[j].channelId) => i = j
       /\ \A i \in DOMAIN channels :
            (\E k \in DOMAIN config :
                /\ keyMatches(config[k])
                /\ config[k].platform = channels[i].platform
                /\ config[k].channelId = channels[i].channelId)
              => /\ channels[i].configured
                 /\ \A l \in DOMAIN live :
                      (live[l].platform = channels[i].platform
                         /\ live[l].channelId = channels[i].channelId
                         /\ live[l].name # NoName) => channels[i].name = live[l].name

\* The live listing of a /channels request failed: the session is a Slack
\* session, the app runs, and conversations.list (or auth.test) threw
ListingFailed(c) ==
  LET session == getSessionById(sessions, c.body.session_id)
  IN /\ c.endpoint = "/channels"
     /\ session # NoRow
     /\ session.platform = "slack"
     /\ slackApp
     /\ ~c.listing.ok

\* C19: a /channels request whose live listing failed was answered normally
\* (status 200, not the 500 of the catch block) with exactly the channels of
\* the configuration, in the order of its keys.
C19_ListingFailureGivesConfigured ==
  ListingFailed(call) =>
     /\ reply.status = 200
     /\ reply.channels = configuredChannels(config)

\* C19 witness: the listing failed and the answer holds a configured channel.
C19_ConfiguredOnly ==
  /\ ListingFailed(call)
  /\ reply.channels # <<>>
  /\ \A i \in DOMAIN reply.channels : reply.channels[i].configured

\* The step ends the handling of a message that the filter rejected
FilteredStep(h) == handlers'[h] = Ignored /\ handlers[h] # Ignored

\* C20: a step in which a handler drops a message that the response filter
\* rejected leaves the session table (no row created, none refreshed), the
\* message log, both registries and the reference cache as they were, and
\* the handler has sent no acknowledgement, delivered nothing, registered no
\* context and started no agent process.
C20_FilteredChangesNothing ==
  [][\A h \in Handlers :
       FilteredStep(h) =>
         /\ UNCHANGED <<sessions, messageLog, nextId, slackContexts, teamsContexts,
                        conversationReferences>>
         /\ ~handlers[h].acked /\ ~handlers'[h].acked
         /\ ~handlers[h].registered /\ ~handlers'[h].registered
         /\ handlers[h].env = Undefined /\ handlers'[h].env = Undefined
         /\ handlers'[h].finals = <<>>]_vars

\* C20 witness: a message was filtered out while a session exists and another
\* message of its conversation is being handled.
C20_FilteredBesideActive ==
  \E h1, h2 \in Handlers :
    /\ handlers[h1] = Ignored
    /\ handlers[h2].pc = "executing"
    /\ handlers[h2].platform = "slack"
    /\ sessions # {}

C27_AllowedDMAlwaysTrue ==
  (/\ decision.decided /\ decision.filter.defined
   /\ decision.filter.allowDMs /\ decision.context.isDM) => decision.result

\* C27 witness: a DM was answered true under mode 'none' with combined modes
\* of which none passes.
C27_DMUnderModeNone ==
  /\ decision.decided /\ decision.filter.defined
  /\ decision.filter.allowDMs /\ decision.context.isDM
  /\ decision.filter.mode = "none"
  /\ decision.filter.combineModes.present
  /\ Len(decision.filter.combineModes.items) > 0
  /\ ~\E i \in DOMAIN decision.filter.combineModes.items :
        checkSingleMode(decision.filter.combineModes.items[i], decision.filter, decision.context)
  /\ decision.result

\* combineModes has entries
Combines(filter) == filter.combineModes.present /\ Len(filter.combineModes.items) > 0

\* C28: when combineModes has entries and the DM rule did not answer, the
\* answer is true exactly when some listed mode's own check passes, and it
\* is the answer for every other value of filter.mode.
C28_CombinedModesAreOr ==
  (/\ decision.decided /\ decision.filter.defined
   /\ Combines(decision.filter)
   /\ ~(decision.context.isDM /\ decision.filter.allowDMs)) =>
     /\ decision.result <=>
          \E i \in DOMAIN decision.filter.combineModes.items :
            checkSingleMode(decision.filter.combineModes.items[i], decision.filter,
                            decision.context)
     /\ \A mode \in FilterModes :
          shouldRespondToMessage([decision.filter EXCEPT !.mode = mode], decision.context)
            = decision.result

\* C28 witness: two modes are combined, the first fails, the second passes,
\* filter.mode is 'none', and the answer is true.
C28_SecondModePasses ==
  /\ decision.decided /\ decision.filter.defined
  /\ ~decision.context.isDM
  /\ decision.filter.mode = "none"
  /\ Combines(decision.filter)
  /\ Len(decision.filter.combineModes.items) = 2
  /\ ~checkSingleMode(decision.filter.combineModes.items[1], decision.filter, decision.context)
  /\ checkSingleMode(decision.filter.combineModes.items[2], decision.filter, decision.context)
  /\ decision.result

\* C29 as stated: under a filter with mode 'none' and allowDMs false the
\* answer is false for every context.
C29_ModeNoneAlwaysFalse ==
  (/\ decision.decided /\ decision.filter.defined
   /\ decision.filter.mode = "none" /\ ~decision.filter.allowDMs) => ~decision.result

\* C29 as amended: under a filter with mode 'none', allowDMs false and no
\* entry in combineModes the answer is false for every context, DM or not,
\* mention or not.
C29_ModeNoneAloneAlwaysFalse ==
  (/\ decision.decided /\ decision.filter.defined
   /\ decision.filter.mode = "none" /\ ~decision.filter.allowDMs
   /\ ~Combines(decision.filter)) => ~decision.result

\* C29 witness: such a filter refused a DM that mentions the bot, in a
\* thread.
C29_MentioningDMRefused ==
  /\ decision.decided /\ decision.filter.defined
  /\ decision.filter.mode = "none" /\ ~decision.filter.allowDMs
  /\ ~Combines(decision.filter)
  /\ decision.context.isDM /\ decision.context.isMention /\ decision.context.isThread
  /\ ~decision.result

\* filter.keywords is absent or empty
NoKeywords(filter) == ~filter.keywords.present \/ Len(filter.keywords.items) = 0

\* C30 as stated: under a filter with mode 'keywords' and no keyword the
\* answer is false, whatever the text.
C30_NoKeywordsAlwaysFalse ==
  (/\ decision.decided /\ decision.filter.defined
   /\ decision.filter.mode = "keywords" /\ NoKeywords(decision.filter)) => ~decision.result

\* C30 as amended: under a filter with mode 'keywords', no keyword and no
\* entry in combineModes the answer is false, whatever the text, for every
\* context that the DM rule does not answer (not a DM, or allowDMs false).
C30_NoKeywordsAloneAlwaysFalse ==
  (/\ decision.decided /\ decision.filter.defined
   /\ decision.filter.mode = "keywords" /\ NoKeywords(decision.filter)
   /\ ~Combines(decision.filter)
   /\ ~(decision.context.isDM /\ decision.filter.allowDMs)) => ~decision.result

\* C30 witness: a filter with an empty keyword list refused a message that
\* has a text and mentions the bot.
C30_TextRefused ==
  /\ decision.decided /\ decision.filter.defined
  /\ decision.filter.mode = "keywords"
  /\ decision.filter.keywords.present /\ decision.filter.keywords.items = <<>>
  /\ ~Combines(decision.filter)
  /\ decision.context.text # <<>> /\ decision.context.isMention
  /\ ~decision.result

\* Agent session ids an invocation may report
ReportedIds == {"a1", "a2"}

Bound(db) ==
  {[id |-> r.id, platform |-> r.platform, workspace_id |-> r.workspace_id,
    channel_id |-> r.channel_id, thread_id |-> r.thread_id,
    claude_session_id |-> r.claude_session_id, expires_at |-> r.expires_at] : r \in db}

\* C22: from every reachable state, updateClaudeSessionId(id, a) followed at
\* a later instant by the same call leaves every row's agent session id,
\* expiry and key as the first call left them, the row of id holding a; and
\* for an id without a row either call returns with the table as it was.
C22_BindingIdempotent ==
  \A id \in SessionIds \cup {UnknownSessionId}, a \in ReportedIds : \A t2 \in From(now) :
    LET once == updateClaudeSessionId(sessions, id, a, now)
        twice == updateClaudeSessionId(once, id, a, t2)
    IN /\ Bound(twice) = Bound(once)
       /\ \A r \in once : r.id = id => r.claude_session_id = a
       /\ \A r \in sessions : r.id = id =>
            \E q \in once : q.id = id /\ q.expires_at = r.expires_at
       /\ Ids(once) = Ids(sessions)
       /\ id \notin Ids(sessions) => (once = sessions /\ twice = sessions)

\* C22 witness: the row of a session already holds the id that a handler of
\* that session, started without it, is about to report.
C22_SecondBindingAhead ==
  \E h \in Handlers, r \in sessions :
    /\ handlers[h].pc = "executing"
    /\ handlers[h].sid = r.id
    /\ handlers[h].claude = NullText
    /\ r.claude_session_id = "a1"

\* C23: in every reachable state, a sweep at this instant deletes every
\* session whose expiry lies before the instant, keeps every session that a
\* lookup by key at the instant returns, and returns the number of rows it
\* deleted.
C23_SweepDeletesElapsed ==
  LET after == cleanupExpiredSessions(sessions, now)
  IN /\ \A r \in sessions : r.expires_at < now => r \notin after
     /\ \A key \in Keys : LiveRows(sessions, key, now) \subseteq after
     /\ after \subseteq sessions
     /\ cleanupChanges(sessions, now) = Cardinality(sessions \ after)

\* C23 witness: the table holds a session whose expiry has elapsed and a
\* session that a lookup returns.
C23_ElapsedAndLive ==
  \E old, new \in sessions, key \in Keys :
    /\ old.expires_at < now
    /\ new \in LiveRows(sessions, key, now)

\* C24: in every reachable state each message-log entry references a session
\* of the store; deleting any session leaves no log entry of it; and a log
\* entry for a session id that is not in the store is refused.
C24_LogReferencesSessions ==
  /\ \A e \in messageLog : e.session_id \in Ids(sessions)
  /\ \A id \in SessionIds :
       LET db == deleteSession(sessions, id)
       IN /\ id \notin Ids(db)
          /\ \A e \in cascade(messageLog, db) : e.session_id # id /\ e.session_id \in Ids(db)
          /\ \A e \in messageLog : e.session_id # id => e \in cascade(messageLog, db)
  /\ \A id \in SessionIds \cup {UnknownSessionId} :
       id \notin Ids(sessions) => logMessageThrows(sessions, id)

\* C24 witness: a handler is about to log its response for a session that
\* the sweep has deleted, while the log holds entries of another session.
C24_LogAfterSweep ==
  \E h \in Handlers :
    /\ handlers[h].pc = "respond"
    /\ handlers[h].sid \in SessionIds
    /\ handlers[h].sid \notin Ids(sessions)
    /\ messageLog # {}

\* The step is the Teams adapter's handling of a message it received from
\* the conversation of TeamsKey: the message is taken up or dropped
TeamsReceivedStep(h) ==
  /\ teamsAdapter
  /\ Free(h)
  /\ handlers'[h] # handlers[h]
  /\ handlers'[h].platform = "teams" \/ handlers'[h] = Ignored

\* C25: after every step in which the Teams adapter received a message from
\* a conversation, the reference cache has an entry for that conversation
\* and a send to it does not fail for lack of a conversation reference.
C25_ReceivedChannelHasReference ==
  [][\A h \in Handlers :
       TeamsReceivedStep(h) =>
         /\ TeamsKey.channelId \in conversationReferences'
         /\ sendTeamsToChannel([channelId |-> TeamsKey.channelId], teamsAdapter',
                               conversationReferences', TRUE).success]_vars

\* Two characters are the same letter, whatever their case
SameLetter(a, b) == a = b \/ {a, b} = {"h", "H"}

\* The text holds the part at some offset, whatever the case of the letters
ContainsIgnoringCase(text, part) ==
  \E offset \in 0..(Len(text) - Len(part)) :
    \A j \in 1..Len(part) : SameLetter(text[offset + j], part[j])

\* The filter alone decides: the DM rule does not answer and no mode is combined
ModeAloneDecides(d) ==
  /\ d.decided /\ d.filter.defined
  /\ ~Combines(d.filter)
  /\ ~(d.context.isDM /\ d.filter.allowDMs)

\* C31: under mode 'keywords', for a context the DM rule does not answer and
\* with no combined modes, the answer is true exactly when the keyword list
\* has an entry and the text holds some keyword as a substring, whatever the
\* case of the letters of either.
C31_KeywordsAnswer ==
  (ModeAloneDecides(decision) /\ decision.filter.mode = "keywords") =>
     (decision.result <=>
        /\ decision.filter.keywords.present
        /\ \E i \in DOMAIN decision.filter.keywords.items :
             ContainsIgnoringCase(decision.context.text, decision.filter.keywords.items[i]))

\* C31 witness: a text of two characters was answered for a keyword that is
\* its second character in the other case.
C31_KeywordInsideText ==
  /\ ModeAloneDecides(decision) /\ decision.filter.mode = "keywords"
  /\ decision.context.text = <<"x", "H">>
  /\ decision.filter.keywords = Optional(TRUE, << <<"h">> >>)
  /\ ~decision.context.isMention
  /\ decision.result

NoSlash(id) == \A i \in DOMAIN id : id[i] # "/"

\* C33 as stated: parsing the text made of a key whose workspace id and
\* channel id contain no '/' gives the key back.
C33_RoundTrip ==
  (/\ keyTrip.parsed
   /\ NoSlash(keyTrip.key.workspaceId) /\ NoSlash(keyTrip.key.channelId)) =>
     keyTrip.result = Parsed(TRUE, keyTrip.key)

\* C33 as amended: parsing the text made of a key gives the key back when
\* its workspace id and channel id are not empty and contain no '/', and the
\* channel id contains no line terminator.
C33_RoundTripOfFilledKey ==
  (/\ keyTrip.parsed
   /\ NoSlash(keyTrip.key.workspaceId) /\ NoSlash(keyTrip.key.channelId)
   /\ Len(keyTrip.key.workspaceId) > 0 /\ Len(keyTrip.key.channelId) > 0
   /\ \A i \in DOMAIN keyTrip.key.channelId : keyTrip.key.channelId[i] # LineTerminator) =>
     /\ keyTrip.text = makeChannelKey(keyTrip.key)
     /\ keyTrip.result = Parsed(TRUE, keyTrip.key)

\* C33 witness: a Teams key with a line terminator in its workspace id and
\* two characters in each id came back from the round trip.
C33_TeamsKeyCameBack ==
  /\ keyTrip.parsed
  /\ keyTrip.key = ChannelKey("teams", <<"a", LineTerminator>>, <<"a", "a">>)
  /\ keyTrip.result = Parsed(TRUE, keyTrip.key)

\* The entry the file has for the message's channel, as written
WrittenEntry(r) == (CHOOSE e \in r.file.channels : e.key = makeChannelKey(r.key)).value

\* Channel entry, else defaults, else the schema default
Layered(entry, defaults, schemaDefault) ==
  IF entry.written THEN entry
  ELSE IF defaults.written THEN defaults
  ELSE schemaDefault

\* C34: for a channel that has an entry, every field getChannelConfig
\* returns is the value written in the entry, else the value written in
\* defaults, else the schema default (none for a field without one); so a
\* sessionTTL written only in defaults is the channel's sessionTTL.
C34_LayeredPrecedence ==
  (resolution.resolved /\ resolution.file.channels # {}) =>
     LET entry == WrittenEntry(resolution)
         defaults == resolution.file.defaults.value
         got == resolution.channelConfig.value
     IN /\ resolution.channelConfig.present
        /\ got.workingDirectory = Layered(entry.workingDirectory, defaults.workingDirectory, NoText)
        /\ got.systemPrompt = Layered(entry.systemPrompt, defaults.systemPrompt, NoText)
        /\ got.responseFilter = Layered(entry.responseFilter, defaults.responseFilter, NoFilterSetting)
        /\ got.command = Layered(entry.command, defaults.command, Setting(TRUE, SchemaCommand))
        /\ got.sessionTTL = Layered(entry.sessionTTL, defaults.sessionTTL, Setting(TRUE, SchemaSessionTTL))

\* C39: when defaults.responseFilter.allowDMs is false, a Slack DM on a
\* channel without an entry in channels is not taken up (the handler returns
\* before it creates a session, acknowledges or invokes), whether or not
\* defaults.workingDirectory is written.
C39_DisallowedDMIgnored ==
  (/\ resolution.resolved
   /\ isDirect(resolution.key)
   /\ resolution.file.channels = {}
   /\ resolution.file.defaults.present
   /\ resolution.file.defaults.value.responseFilter.written
   /\ ~resolution.file.defaults.value.responseFilter.value.allowDMs) => ~resolution.admitted

\* The same message, as a DM if it was none and as none if it was a DM
OtherConversationType(context) == [context EXCEPT !.isDM = ~@]

\* C40: under a filter with allowDMs false the answer does not depend on
\* isDM: for every such filter, text, isMention and isThread the answer
\* given is the answer to the same message with isDM the other way round.
C40_DMHasNoInfluence ==
  (decision.decided /\ decision.filter.defined /\ ~decision.filter.allowDMs) =>
     decision.result =
       shouldRespondToMessage(decision.filter, OtherConversationType(decision.context))

\* C40 witness: a DM with a text was refused under a filter with allowDMs
\* false whose mode asks for a mention.
C40_DMRefusedLikeChannelMessage ==
  /\ decision.decided /\ decision.filter.defined /\ ~decision.filter.allowDMs
  /\ decision.filter.mode = "mentions" /\ ~Combines(decision.filter)
  /\ decision.context.isDM /\ ~decision.context.isMention
  /\ decision.context.text # <<>>
  /\ ~decision.result

\* The session ids that have an entry in a registry
RegisteredIds(ctxs) == {id \in SessionIds : ctxs[id] # NoContext}

\* C35 as stated: every session id in the Slack registry is the id of a
\* session of the store whose platform is 'slack', every id in the Teams
\* registry that of a session whose platform is 'teams'.
C35_RegisteredIdHasSession ==
  /\ \A id \in RegisteredIds(slackContexts) :
       \E r \in sessions : r.id = id /\ r.platform = "slack"
  /\ \A id \in RegisteredIds(teamsContexts) :
       \E r \in sessions : r.id = id /\ r.platform = "teams"

\* C35 as amended: no session id in the Slack registry is the id of a
\* session of another platform (its row is a Slack row, or the sweep has
\* deleted it), and its context is a Slack thread; likewise for Teams; and
\* sendUpdate posts, if at all, to the context that the registry of the
\* session's recorded platform holds for the id, which it does whenever that
\* registry has one and the post goes through.
C35_RegistriesNeverConfused ==
  /\ \A id \in RegisteredIds(slackContexts) :
       /\ \A r \in sessions : r.id = id => r.platform = "slack"
       /\ slackContexts[id].channelId = SlackKey.channelId
       /\ teamsContexts[id] = NoContext
  /\ \A id \in RegisteredIds(teamsContexts) :
       /\ \A r \in sessions : r.id = id => r.platform = "teams"
       /\ teamsContexts[id].channelId = TeamsKey.channelId
       /\ slackContexts[id] = NoContext
  /\ \A r \in sessions, postOk \in BOOLEAN :
       LET own == IF r.platform = "slack" THEN slackContexts ELSE teamsContexts
           sent == sendUpdate(sessions, slackContexts, teamsContexts, r.id, postOk)
       IN /\ sent.posted \in {NoContext, own[r.id]}
          /\ sent.result <=> (postOk /\ own[r.id] # NoContext)
          /\ sent.result => sent.posted = own[r.id]

\* C35 witness: a Slack session and a Teams session both have a context
\* registered, each in its own registry.
C35_BothRegistered ==
  \E s, t \in sessions :
    /\ s.platform = "slack" /\ slackContexts[s.id] # NoContext
    /\ t.platform = "teams" /\ teamsContexts[t.id] # NoContext

\* The sessions whose expiry has elapsed and whose row the sweep has not
\* removed yet
ElapsedRows == {r \in sessions : r.expires_at < now}

\* C36: for a session whose expiry has elapsed and whose row is still in the
\* store, a lookup by its id behaves as 'not found': sendUpdate returns
\* false and posts nothing, and getAvailableChannels returns the empty list.
C36_ElapsedSessionNotFound ==
  \A r \in ElapsedRows :
    /\ \A postOk \in BOOLEAN :
         LET sent == sendUpdate(sessions, slackContexts, teamsContexts, r.id, postOk)
         IN ~sent.result /\ sent.posted = NoContext
    /\ getAvailableChannels(sessions, r.id, config, slackApp, conversationReferences,
                            NoListing) = <<>>

\* C37: while the agent invocation of a handler is running, the registry of
\* its adapter holds an active context for the handler's session, whatever
\* other handlers of the same session have done in the meantime.
C37_ContextHeldWhileRunning ==
  \A h \in Handlers :
    handlers[h].pc = "executing" =>
      RegistryOf(handlers[h].platform)[handlers[h].sid] # NoContext

\* C38: a handler whose invocation succeeded and whose platform calls all
\* succeeded has replaced its acknowledgement by exactly one final content,
\* the formatted response, and by no error after it, whatever the sweep did
\* to the session row while the invocation was in flight.
C38_ResponseNeverOverwritten ==
  \A h \in Handlers :
    (handlers[h].pc = "done" /\ handlers[h].outcome = "ok" /\ ~handlers[h].sendFailed)
      => handlers[h].finals = <<"response">>

=============================================================================
